---- MODULE Spec2Model ----
(***************************************************************************)
(* HLS monitor engine: the polling scheduler (runMonitor / monitorLoop),   *)
(* the playlist evaluator (checkStream), the error ledger (addError and    *)
(* the pre-save age-out hook of the Stream model), the health scorer and   *)
(* the bounded ffmpeg queue (runLimited / processSegment).                 *)
(*                                                                         *)
(* Times are milliseconds.  A health score is held in hundredths of a      *)
(* point (10000 = 100.00) and a decay factor in hundredths (25 = 0.25), so *)
(* that the scorer's arithmetic stays in the integers.                     *)
(***************************************************************************)
EXTENDS Integers, Sequences, FiniteSets, TLC

\* ---------------------------------------------------------------- constants

MAX_CONCURRENT_FFMPEG == 4
SILENT_BELOW == -50
MONITOR_INTERVAL == 7000
SEVEN_DAYS == 604800000
WINDOW_MS == 720000
StaleThresholdDefault == 7000
Unseen == -1
HOUR == 3600000

\* ------------------------------------------------------------------- bounds

\* sweeps the scheduler starts in one behaviour of Spec
MaxSweeps == 2
\* sweeps the scheduler starts in one behaviour of SpecLong
MaxLongSweeps == 3
\* largest media sequence a fetched playlist declares
MaxSeq == 4

\* the stream records of the store
Streams == {"s1"}

\* a stale threshold an operator has set above the poll interval
LongThreshold == 10000

\* longest ledger a record of SpecRecord starts with
MaxLedger == 3

\* the time the store and the network take between the timer firing and the
\* next poll reading the clock
Latency == 100
\* delays added to the timer's 7000 ms: the latency alone, or with a pause as
\* long as the 7 day retention
Latencies == {Latency, SEVEN_DAYS}

VARIABLES
    now,              \* Date.now()
    store,            \* the persisted stream records, by stream id
    docs,             \* the in-memory documents, by document identity
    streamState,      \* the poll state Map, by stream id
    isRunning,        \* the reentry guard of runMonitor
    timerPending,     \* number of armed setTimeout(runMonitor) timers
    sweeps,           \* the invocations of runMonitor in flight
    started,          \* number of sweeps started so far
    activeProcesses,  \* processor.js: activeProcesses
    processQueue,     \* processor.js: processQueue
    executing,        \* the tasks whose promise is pending
    futures,          \* by task: how its promise settled, and the state of
                      \* the promise runLimited returned for it
    saving,           \* by document: the stream.save() calls of task
                      \* callbacks that have not settled
    metrics,          \* the samples MetricsHistory got from the latest poll
    published         \* the events the latest poll has emitted on io

vars == <<now, store, docs, streamState, isRunning, timerPending, sweeps,
          started, activeProcesses, processQueue, executing, futures,
          saving, metrics, published>>

\* ------------------------------------------------------- the Stream schema

\* null or undefined, where a level in dB is expected
Null == 1000

\* A new stream record: the defaults of StreamSchema.
NewStream ==
    [status |-> "offline",
     isStale |-> FALSE,
     timeSinceLastUpdate |-> 0,
     staleThreshold |-> StaleThresholdDefault,
     mediaSequence |-> Unseen,
     previousMediaSequence |-> Unseen,
     sequenceJumps |-> 0,
     sequenceResets |-> 0,
     totalErrors |-> 0,
     lastErrorTime |-> Unseen,
     recentErrors |-> 0,
     recentSequenceJumps |-> 0,
     recentSequenceResets |-> 0,
     streamErrors |-> << >>,
     audio |-> [avgDb |-> Null, peakDb |-> Null, isSilent |-> FALSE],
     conflicts |-> FALSE]

ErrorTypes ==
    [MANIFEST_RETRIEVAL |-> "Manifest Retrieval",
     MEDIA_SEQUENCE |-> "Media Sequence",
     PLAYLIST_CONTENT |-> "Playlist Content",
     STALE_MANIFEST |-> "Stale Manifest"]

\* What err.message holds when a request or a save fails.
Timeout == "timeout of 10000ms exceeded"
ResetByPeer == "Connection reset by peer"
Unexpected == "unexpected reply: Sequence jumped"
Messages == {Timeout, ResetByPeer, Unexpected}

\* the messages that hold "reset", and those that hold "Sequence jumped"
WithReset == {ResetByPeer, "getaddrinfo ENOTFOUND reset.example.com"}
WithJumped == {Unexpected}

\* The details string of a ledger entry, by the template that builds it:
\* kind names the template, a and b the numbers it interpolates, message the
\* err.message it interpolates.
Details(kind, a, b) == [kind |-> kind, a |-> a, b |-> b, message |-> ""]

\* `Failed to fetch manifest: ${err.message}`, `Failed to fetch variant:
\* ${err.message}` and the bare err.message of the catch block
Failure(kind, message) == [kind |-> kind, a |-> 0, b |-> 0, message |-> message]

\* an age-out that tests only that the entry has a date that parses
KeepErrorDated(err, t) ==
    /\ err.hasDate
    /\ err.valid

\* An entry is kept by the age-out iff it has a date that parses and is later
\* than seven days before the save.  hasDate is FALSE for an entry without a
\* date, valid is FALSE for a date that does not parse.
KeepError(err, t) ==
    /\ err.hasDate
    /\ err.valid
    /\ err.date > t - SEVEN_DAYS

\* an age-out pass that also sets totalErrors to the size of the ledger
PreSaveResync(stream, t) ==
    LET kept == SelectSeq(stream.streamErrors, LAMBDA err : KeepError(err, t))
    IN [stream EXCEPT !.streamErrors = kept, !.totalErrors = Len(kept)]

\* StreamSchema.pre('save'): the age-out pass.
PreSave(stream, t) ==
    IF Len(stream.streamErrors) > 0
    THEN [stream EXCEPT !.streamErrors = SelectSeq(@, LAMBDA err : KeepError(err, t))]
    ELSE stream

\* an addError that does not count the entry
BumpNothing(stream) == stream.totalErrors

\* addError's count of all errors ever recorded.
BumpTotalErrors(stream) == stream.totalErrors + 1

\* addError(stream, errorType, details)
addError(stream, errorType, details, t) ==
    LET error == [hasDate |-> TRUE, valid |-> TRUE, date |-> t,
                  errorType |-> errorType, details |-> details]
    IN [stream EXCEPT !.streamErrors = Append(@, error),
                      !.totalErrors = BumpTotalErrors(stream),
                      !.lastErrorTime = t]

\* ---------------------------------------------------------------- the store

\* The version counter of a record is held by what the store tests of it:
\* stream.conflicts is TRUE iff the version the document carries is no longer
\* the persisted one, that is, iff another document of the same record has
\* been saved since this one was loaded or last saved.

\* The outcome of stream.save(): the store rejects a document whose version
\* is not the persisted one; fails stands for any other persistence error.
SaveResult(stream, fails) ==
    IF fails THEN "Error"
    ELSE IF stream.conflicts THEN "VersionError"
    ELSE "ok"

\* stream.save(): the pre-save hook runs on the document, then the store
\* takes the document, or rejects it.
Save(stream, rec, t, fails) ==
    LET aged == PreSave(stream, t)
        res == SaveResult(aged, fails)
    IN [res |-> res,
        saved |-> res = "ok",
        stream |-> aged,
        rec |-> IF res = "ok" THEN aged ELSE rec]

\* The documents after document id has gone through a save with result r:
\* a save the store took advances the record's version, which leaves every
\* other document of that record behind.
AfterSave(d, id, r) ==
    [other \in DOMAIN d |->
        IF other = id THEN r.stream
        ELSE IF r.saved /\ other[2] = id[2] THEN [d[other] EXCEPT !.conflicts = TRUE]
        ELSE d[other]]

\* --------------------------------------------------------------- the scorer

Min(a, b) == IF a < b THEN a ELSE b
Max(a, b) == IF a > b THEN a ELSE b

\* getErrorDecayFactor(lastErrorTime), in hundredths.  hasTime is FALSE for
\* null, valid is FALSE for a value that does not parse as a date.
getErrorDecayFactor(hasTime, valid, lastErrorTime, t) ==
    IF ~hasTime THEN 100
    ELSE IF ~valid THEN 0
    ELSE IF t - lastErrorTime < 0 THEN 0
    ELSE IF t - lastErrorTime < HOUR THEN 0
    ELSE IF t - lastErrorTime < 6 * HOUR THEN 25
    ELSE IF t - lastErrorTime < 24 * HOUR THEN 50
    ELSE IF t - lastErrorTime < 72 * HOUR THEN 75
    ELSE 90

\* message.includes(needle), for the messages above and the two needles the
\* window classifier uses
MessageIncludes(message, needle) ==
    \/ needle = "reset" /\ message \in WithReset
    \/ needle = "Sequence jumped" /\ message \in WithJumped

\* details.includes(needle) on the whole string: the text of the template,
\* then the message it interpolates.  Of the templates only `Sequence jumped
\* from ...` holds "Sequence jumped" and only `Sequence reset from ...` holds
\* "reset".
Includes(details, needle) ==
    \/ needle = "Sequence jumped" /\ details.kind = "jumped"
    \/ needle = "reset" /\ details.kind = "reset"
    \/ /\ details.kind \in {"fetch", "variant", "thrown"}
       /\ MessageIncludes(details.message, needle)

\* a window that leaves out the entry dated exactly 12 minutes ago
InWindowStrict(err, t) ==
    /\ err.hasDate
    /\ err.valid
    /\ err.date > t - WINDOW_MS

\* if (!err.date) return false; return new Date(err.date) >= windowStart
InWindow(err, t) ==
    /\ err.hasDate
    /\ err.valid
    /\ err.date >= t - WINDOW_MS

\* calculateSlidingWindowMetrics(streamId): reads the persisted ledger;
\* fails stands for a failed read, which yields the default result.
calculateSlidingWindowMetrics(rec, t, fails) ==
    IF fails THEN [jumps |-> 0, resets |-> 0, errors |-> 0]
    ELSE
    LET recentErrors == SelectSeq(rec.streamErrors, LAMBDA err : InWindow(err, t))
    IN [jumps |-> Len(SelectSeq(recentErrors,
                     LAMBDA err : \/ err.errorType = "SEQUENCE_JUMP"
                                  \/ Includes(err.details, "Sequence jumped"))),
        resets |-> Len(SelectSeq(recentErrors,
                     LAMBDA err : \/ err.errorType = "SEQUENCE_RESET"
                                  \/ Includes(err.details, "reset"))),
        errors |-> Len(recentErrors)]

\* a score that is not clamped
NoClamp(score) == score

\* Math.max(0, Math.min(100, score)), in hundredths
Clamp(score) == Max(0, Min(10000, score))

\* calculateHealthScore(stream, recentIssues, decayFactor), in hundredths.
\* hasRecent is FALSE when recentIssues is null.
calculateHealthScore(stream, hasRecent, recentIssues, decayFactor) ==
    LET immediate ==
            10000 - (IF stream.isStale THEN 3000 ELSE 0)
                  - (IF stream.status = "error" THEN 4000 ELSE 0)
                  - (IF stream.status = "offline" THEN 5000 ELSE 0)
        effectiveDecay == 100 - decayFactor
        windowed ==
            ( Min(recentIssues.jumps * 5, 20)
            + Min(recentIssues.resets * 10, 30)
            + Min(recentIssues.errors * 2, 20) ) * effectiveDecay
        allTime ==
            ( (IF stream.sequenceJumps > 0 THEN Min(stream.sequenceJumps * 5, 20) ELSE 0)
            + (IF stream.sequenceResets > 0 THEN Min(stream.sequenceResets * 10, 30) ELSE 0)
            + (IF stream.totalErrors > 0 THEN Min(stream.totalErrors * 2, 20) ELSE 0) ) * 100
    IN Clamp(immediate - (IF hasRecent THEN windowed ELSE allTime))

\* ------------------------------------------------------------ the evaluator

\* a lookup whose default takes sequence 0 for the last one seen
GetStateFromZero(map, sid) ==
    IF sid \in DOMAIN map THEN map[sid]
    ELSE [lastPollTime |-> 0, lastMediaSequence |-> 0, consecutiveStales |-> 0]

\* streamState.get(id) || { lastPollTime: 0, lastMediaSequence: -1, ... }
GetState(map, sid) ==
    IF sid \in DOMAIN map THEN map[sid]
    ELSE [lastPollTime |-> 0, lastMediaSequence |-> Unseen, consecutiveStales |-> 0]

\* a write of the poll state that is made before the freshness check has
\* counted the poll
SetStateBeforeChecks(map, sid, state) ==
    [k \in DOMAIN map \cup {sid} |->
        IF k = sid
        THEN [state EXCEPT !.consecutiveStales =
                IF sid \in DOMAIN map THEN map[sid].consecutiveStales ELSE 0]
        ELSE map[k]]

\* streamState.set(id, state)
SetState(map, sid, state) ==
    [k \in DOMAIN map \cup {sid} |-> IF k = sid THEN state ELSE map[k]]

\* const currentSequence = manifest.mediaSequence || 0
CurrentSequence(manifest) ==
    IF manifest.hasSeq THEN manifest.mediaSequence ELSE 0

\* a jump check that counts a gap of 2
IsJumpFromTwo(gap) == gap >= 2

\* the gap from which a forward step of the media sequence is a jump
IsJump(gap) == gap >= 3

\* a reset check that lets a step back of one pass
IsResetOffByOne(currentSequence, last) == currentSequence < last - 1

\* if (currentSequence < state.lastMediaSequence)
IsReset(currentSequence, last) == currentSequence < last

\* a playlist update that leaves the status as it was
UpdatedKeepsStatus(stream) ==
    [stream EXCEPT !.isStale = FALSE, !.timeSinceLastUpdate = 0]

\* the document after the staleness check has seen the playlist updated
Updated(stream) ==
    [stream EXCEPT !.isStale = FALSE, !.timeSinceLastUpdate = 0,
                   !.status = "online"]

\* a threshold test that lets twice the threshold pass
ExceedsTwice(elapsed, threshold) == elapsed > 2 * threshold

\* if (stream.health.timeSinceLastUpdate > stream.health.staleThreshold)
Exceeds(elapsed, threshold) == elapsed > threshold

\* The staleness check of checkStream.
Staleness(stream, state, currentSequence, t, clock) ==
    IF currentSequence = state.lastMediaSequence
    THEN LET elapsed == t - state.lastPollTime
             timed == [stream EXCEPT !.timeSinceLastUpdate = elapsed]
         IN [state |-> [state EXCEPT !.consecutiveStales = @ + 1],
             stream |-> IF Exceeds(elapsed, stream.staleThreshold)
                        THEN addError([timed EXCEPT !.isStale = TRUE,
                                                    !.status = "stale"],
                                      ErrorTypes.STALE_MANIFEST,
                                      Details("stale", elapsed, 0), clock)
                        ELSE timed]
    ELSE [state |-> [state EXCEPT !.consecutiveStales = 0],
          stream |-> Updated(stream)]

\* The sequence checks of checkStream: jump, then reset.
SequenceChecks(stream, state, currentSequence, clock) ==
    IF state.lastMediaSequence = Unseen THEN stream
    ELSE
    LET expectedSequence == state.lastMediaSequence + 1
        gap == currentSequence - expectedSequence
        jumped ==
            IF currentSequence > expectedSequence /\ IsJump(gap)
            THEN addError([stream EXCEPT !.sequenceJumps = @ + 1],
                          ErrorTypes.MEDIA_SEQUENCE,
                          Details("jumped", state.lastMediaSequence, currentSequence), clock)
            ELSE stream
    IN IF IsReset(currentSequence, state.lastMediaSequence)
       THEN addError([jumped EXCEPT !.sequenceResets = @ + 1],
                     ErrorTypes.MEDIA_SEQUENCE,
                     Details("reset", state.lastMediaSequence, currentSequence), clock)
       ELSE jumped

\* a health update that stores the cached sequence
CommittedPrevious(currentSequence, state) == state.lastMediaSequence

\* The value the health update stores in health.mediaSequence.
CommittedSequence(currentSequence, state) == currentSequence

\* checkStream from the staleness check to streamState.set: the document and
\* the poll state after a media playlist with segments has been fetched.
\* t is the poll's `now`, clock the time new Date() reads.
Evaluate(stream, state, manifest, t, clock) ==
    LET currentSequence == CurrentSequence(manifest)
        fresh == Staleness(stream, state, currentSequence, t, clock)
        checked == SequenceChecks(fresh.stream, fresh.state, currentSequence, clock)
    IN [stream |-> [checked EXCEPT
                      !.previousMediaSequence = state.lastMediaSequence,
                      !.mediaSequence = CommittedSequence(currentSequence, state)],
        state |-> [fresh.state EXCEPT !.lastMediaSequence = currentSequence,
                                      !.lastPollTime = t]]

\* ------------------------------------------------------------ the pipeline

\* The two promises of a submission: settled tells how the promise task()
\* returned has settled ("no" while it has not), future the state of the
\* promise runLimited returned.
Promised(f, task) ==
    [t \in DOMAIN f \cup {task} |->
        IF t = task THEN [settled |-> "no", future |-> "pending"] ELSE f[t]]

\* a limiter that admits a task when all slots are taken
CanExecuteOffByOne(n) == n <= MAX_CONCURRENT_FFMPEG

\* if (activeProcesses < MAX_CONCURRENT_FFMPEG)
CanExecute(n) == n < MAX_CONCURRENT_FFMPEG

\* execute(): the task takes a slot and starts.
Execute(p, task) ==
    [p EXCEPT !.activeProcesses = @ + 1,
              !.executing = @ \cup {task}]

\* a limiter that forgets a task that finds no free slot
runLimitedNoQueue(p, task) ==
    LET made == [p EXCEPT !.futures = Promised(@, task)]
    IN IF CanExecute(p.activeProcesses)
       THEN Execute(made, task)
       ELSE made

\* runLimited(task), on the pipeline p
runLimited(p, task) ==
    LET made == [p EXCEPT !.futures = Promised(@, task)]
    IN IF CanExecute(p.activeProcesses)
       THEN Execute(made, task)
       ELSE [made EXCEPT !.processQueue = Append(@, task)]

\* a task whose promise is rejected keeps its slot, and the promise returned
\* at submission stays pending: the handler is attached with then
ReleaseOnSuccess(p, task, outcome) ==
    LET freed == [p EXCEPT !.activeProcesses = @ - 1,
                           !.executing = @ \ {task},
                           !.futures[task] = [settled |-> "fulfilled",
                                              future |-> "resolved"]]
    IN IF outcome = "rejected"
       THEN [p EXCEPT !.executing = @ \ {task},
                      !.futures[task].settled = "rejected"]
       ELSE IF Len(freed.processQueue) > 0
       THEN Execute([freed EXCEPT !.processQueue = Tail(@)], Head(freed.processQueue))
       ELSE freed

\* a finally handler that starts the task queued last
ReleaseLast(p, task, outcome) ==
    LET freed == [p EXCEPT !.activeProcesses = @ - 1,
                           !.executing = @ \ {task},
                           !.futures[task] = [settled |-> "fulfilled",
                                              future |-> "resolved"]]
        n == Len(freed.processQueue)
    IN IF n > 0
       THEN Execute([freed EXCEPT !.processQueue = SubSeq(@, 1, n - 1)],
                    freed.processQueue[n])
       ELSE freed

\* a finally handler that frees the slot and leaves the queue alone
ReleaseWithoutNext(p, task, outcome) ==
    [p EXCEPT !.activeProcesses = @ - 1,
              !.executing = @ \ {task},
              !.futures[task] =
                  [settled |-> IF outcome = "rejected" THEN "rejected"
                               ELSE "fulfilled",
                   future |-> "resolved"]]

\* task().catch(() => { }).finally(...): however the task's promise settles,
\* the slot is released, the promise returned at submission is resolved and
\* the next queued task, if any, is started.  The outcome is "rejected" when
\* the task's promise is rejected, and "success" or "error" when it is
\* fulfilled.
Release(p, task, outcome) ==
    LET freed == [p EXCEPT !.activeProcesses = @ - 1,
                           !.executing = @ \ {task},
                           !.futures[task] =
                               [settled |-> IF outcome = "rejected" THEN "rejected"
                                            ELSE "fulfilled",
                                future |-> "resolved"]]
    IN IF Len(freed.processQueue) > 0
       THEN Execute([freed EXCEPT !.processQueue = Tail(@)], Head(freed.processQueue))
       ELSE freed

Task(kind, d) == [kind |-> kind, doc |-> d]

\* How the promise of a task settles when the tool throws as the task sets
\* it up: the probe and the thumbnail task call the tool unguarded, so the
\* promise is rejected; the loudness task catches and resolves.
Rejection(task) == IF task.kind = "volume" THEN "error" ELSE "rejected"

\* the tasks a release has started from the queue and whose tool throws
StartedToThrow(before, after, throws) ==
    SelectSeq(before.processQueue,
              LAMBDA task : task \in after.executing /\ task.kind \in throws)

RECURSIVE Thrown(_, _, _)
\* The tasks of begun have been started and their tool has thrown: the
\* promise of each is settled at once, so its handlers run before any other
\* callback does: the slot is released and the next queued task is started,
\* whose tool throws in turn if its kind is in throws.
Thrown(p, begun, throws) ==
    IF begun = << >> THEN p
    ELSE LET q == Release(p, Head(begun), Rejection(Head(begun)))
         IN Thrown(q, Tail(begun) \o StartedToThrow(p, q, throws), throws)

\* A task that was executing ends: the finally handler runs, and the
\* handlers of the queued tasks it starts if their tool throws.
Ended(p, task, outcome, throws) ==
    LET q == Release(p, task, outcome)
    IN Thrown(q, StartedToThrow(p, q, throws), throws)

\* processSegment(stream, segmentUrl, io): probe, loudness and thumbnail
\* are submitted in this order.  throws holds the kinds of task whose tool
\* throws as it is set up.
processSegment(p, d, throws) ==
    LET tasks == <<Task("probe", d), Task("volume", d), Task("sprite", d)>>
        submitted == runLimited(runLimited(runLimited(p, tasks[1]), tasks[2]),
                                tasks[3])
    IN Thrown(submitted,
              SelectSeq(tasks, LAMBDA task : /\ task \in submitted.executing
                                             /\ task.kind \in throws),
              throws)

\* x || null, for a level in dB
OrNull(x) == IF x = Null \/ x = 0 THEN Null ELSE x

\* what parseFloat gives for a matched level that is not a number, such as
\* "-" or "."
NaN == 2000

\* avgDb !== null && !isNaN(avgDb) && isFinite(avgDb) ? avgDb : null
Valid(x) == IF x = Null \/ x = NaN THEN Null ELSE x

\* The probe callback's stream.stats.audio = { ..., peakDb: ... || null,
\* avgDb: ... || null, isSilent: ... || false } when the segment has an audio
\* stream.
ProbeAudio(audio) ==
    [avgDb |-> OrNull(audio.avgDb),
     peakDb |-> OrNull(audio.peakDb),
     isSilent |-> audio.isSilent]

\* The end handler of the loudness task: mean and max are what parseFloat
\* gives for the levels matched in the mean_volume and max_volume lines, Null
\* for a line that is not matched.  When a line is matched the three fields
\* are written, with null for a level that is not a number.
VolumeAudio(audio, mean, max) ==
    IF mean = Null /\ max = Null THEN audio
    ELSE [avgDb |-> Valid(mean),
          peakDb |-> Valid(max),
          isSilent |-> Valid(max) # Null /\ Valid(max) < SILENT_BELOW]

\* What the callback of a task that succeeds does to the document.  result
\* tells whether the probe found an audio stream, and the levels the
\* loudness analysis printed.
Callback(stream, task, result) ==
    IF task.kind = "probe" /\ result.audio
    THEN [stream EXCEPT !.audio = ProbeAudio(@)]
    ELSE IF task.kind = "volume"
    THEN [stream EXCEPT !.audio = VolumeAudio(@, result.mean, result.max)]
    ELSE stream

\* whether that callback calls stream.save(): the loudness task does only
\* when a line is matched
Saves(task, result) ==
    task.kind # "volume" \/ result.mean # Null \/ result.max # Null

\* stream.save() is called on document id and not awaited
Called(s, id) ==
    [d \in DOMAIN s \cup {id} |->
        IF d \notin DOMAIN s THEN 1
        ELSE IF d = id THEN s[d] + 1
        ELSE s[d]]

\* one of the pending saves of document id has settled
Settled(s, id) ==
    [d \in {x \in DOMAIN s : x # id \/ s[x] > 1} |->
        IF d = id THEN s[d] - 1 ELSE s[d]]

Pipe == [activeProcesses |-> activeProcesses,
         processQueue |-> processQueue,
         executing |-> executing,
         futures |-> futures]

SetPipe(p) ==
    /\ activeProcesses' = p.activeProcesses
    /\ processQueue' = p.processQueue
    /\ executing' = p.executing
    /\ futures' = p.futures

\* ---------------------------------------------------- documents in memory

Range(seq) == {seq[k] : k \in 1..Len(seq)}

\* The documents still referenced: those of the array a sweep in flight
\* loops over, polled or not, those a pending task holds and those of a
\* pending save.  The others are garbage.
Referenced(sw, p, s) ==
    UNION {Range(sw[k].docs) : k \in 1..Len(sw)}
      \cup {task.doc : task \in p.executing}
      \cup {task.doc : task \in Range(p.processQueue)}
      \cup DOMAIN s

Collect(d, sw, p, s) ==
    [id \in DOMAIN d \cap Referenced(sw, p, s) |-> d[id]]

SidOf(id) == id[2]

\* ------------------------------------------------------------ the scheduler

NoManifest == [kind |-> "none", hasSeq |-> FALSE, mediaSequence |-> 0, segments |-> 0,
               message |-> ""]

\* the manifests a fetch can produce: a failure of the master or of the
\* variant fetch, with its message, or a media playlist
Manifests ==
    {[NoManifest EXCEPT !.kind = k, !.message = msg] :
        k \in {"masterError", "variantError"}, msg \in Messages}
      \cup {[NoManifest EXCEPT !.kind = "media", !.segments = n] : n \in {0, 5}}
      \cup {[NoManifest EXCEPT !.kind = "media", !.hasSeq = TRUE,
                               !.mediaSequence = q, !.segments = 5] :
              q \in 0..MaxSeq}

Order == <<"s1", "s2">>

\* Stream.find(): one new document per stored record
Found(n) == SelectSeq([k \in 1..Len(Order) |-> <<n, Order[k]>>],
                      LAMBDA id : SidOf(id) \in DOMAIN store)

Sched == [isRunning |-> isRunning, timerPending |-> timerPending,
          sweeps |-> sweeps, started |-> started]

SetSched(s) ==
    /\ isRunning' = s.isRunning
    /\ timerPending' = s.timerPending
    /\ sweeps' = s.sweeps
    /\ started' = s.started

\* no sample: the poll has not called MetricsHistory.create
NoSample == [doc |-> <<0, "">>, healthScore |-> 0, status |-> "", mediaSequence |-> 0,
             errorCount |-> 0]

NewSweep(n) == [n |-> n, pc |-> "find", docs |-> << >>, idx |-> 1, now |-> 0,
                manifest |-> NoManifest, sample |-> NoSample]

\* a runMonitor without the guard that schedules the next run as it starts
runMonitorFixedRate(s) ==
    [s EXCEPT !.timerPending = @ + 1,
              !.sweeps = Append(@, NewSweep(s.started + 1)),
              !.started = @ + 1]

\* runMonitor() up to its first await: the reentry guard, then monitorLoop
\* is entered.
runMonitor(s) ==
    IF s.isRunning THEN s
    ELSE [s EXCEPT !.isRunning = TRUE,
                   !.sweeps = Append(@, NewSweep(s.started + 1)),
                   !.started = @ + 1]

\* a finally block that lowers the guard and schedules nothing
FinallyNoTimer(s, k) ==
    [s EXCEPT !.isRunning = FALSE,
              !.sweeps = SelectSeq(@, LAMBDA sw : sw.n # s.sweeps[k].n)]

\* The finally block of runMonitor for sweep k: the guard is lowered and the
\* next run is scheduled.
Finally(s, k) ==
    [s EXCEPT !.isRunning = FALSE,
              !.timerPending = @ + 1,
              !.sweeps = SelectSeq(@, LAMBDA sw : sw.n # s.sweeps[k].n)]

\* a loop that a poll which has returned throws out of: the sweep ends in
\* the finally block with its other streams unpolled
ThrowToFinally(s, k, t) ==
    LET sw == s.sweeps[k]
    IN IF sw.idx = 0 /\ Len(sw.docs) > 0
       THEN [s EXCEPT !.sweeps[k] = [sw EXCEPT !.idx = 1, !.pc = "fetch",
                                               !.now = t, !.manifest = NoManifest,
                                               !.sample = NoSample]]
       ELSE Finally([s EXCEPT !.sweeps[k].idx = Len(sw.docs) + 1], k)

\* monitorLoop's for loop after the poll of docs[idx] has returned: the next
\* stream is polled, or the sweep ends.
NextStream(s, k, t) ==
    LET sw == s.sweeps[k]
    IN IF sw.idx < Len(sw.docs)
       THEN [s EXCEPT !.sweeps[k] = [sw EXCEPT !.idx = @ + 1, !.pc = "fetch",
                                               !.now = t, !.manifest = NoManifest,
                                               !.sample = NoSample]]
       ELSE Finally([s EXCEPT !.sweeps[k].idx = Len(sw.docs) + 1], k)

\* A timer set by setTimeout(runMonitor, MONITOR_INTERVAL) fires.
TimerFires(d, maxSweeps) ==
    /\ timerPending > 0
    /\ started < maxSweeps
    /\ now' = now + MONITOR_INTERVAL + d
    /\ SetSched(runMonitor([Sched EXCEPT !.timerPending = @ - 1]))
    /\ UNCHANGED <<store, docs, streamState, activeProcesses, processQueue,
                   executing, futures, saving, metrics, published>>

\* await Stream.find() returns, or throws into runMonitor's catch.
FindStreams(k, fails) ==
    /\ k \in 1..Len(sweeps)
    /\ sweeps[k].pc = "find"
    /\ IF fails
       THEN /\ SetSched(Finally(Sched, k))
            /\ UNCHANGED docs
       ELSE LET ids == Found(sweeps[k].n)
                loaded == [Sched EXCEPT !.sweeps[k].docs = ids, !.sweeps[k].idx = 0]
            IN \E s \in {NextStream(loaded, k, now)} :
               /\ SetSched(s)
               /\ docs' = Collect([id \in DOMAIN docs \cup Range(ids) |->
                                     IF id \in Range(ids) THEN store[SidOf(id)]
                                     ELSE docs[id]], s.sweeps, Pipe, saving)
    /\ UNCHANGED <<now, store, streamState, activeProcesses, processQueue,
                   executing, futures, saving, metrics, published>>

\* await fetchManifest(...) settles: the master fetch and, for a master
\* playlist, the fetch of its first variant.
FetchManifest(k, m) ==
    /\ k \in 1..Len(sweeps)
    /\ sweeps[k].pc = "fetch"
    /\ sweeps' = [sweeps EXCEPT ![k].manifest = m, ![k].pc = "eval"]
    /\ metrics' = << >>
    /\ published' = << >>
    /\ UNCHANGED <<now, store, docs, streamState, isRunning, timerPending,
                   started, activeProcesses, processQueue, executing, futures,
                   saving>>

\* -------------------------------------------------------------- checkStream

\* no error: the store answers the save
NoError == ""

\* a handler that throws a version conflict to the outer catch like any other
\* error
SaveOrCatchAll(res) ==
    IF res = "ok" THEN "next" ELSE "throw"

\* try { await stream.save() } catch (saveErr) { ... } as every save of
\* checkStream before the scoring step is wrapped: a version conflict ends
\* the poll, any other error is thrown to the outer catch.
SaveOrCatch(res) ==
    IF res = "ok" THEN "next"
    ELSE IF res = "VersionError" THEN "return"
    ELSE "throw"

\* io.emit('stream:update', stream)
Update(id, stream) == [name |-> "stream:update", doc |-> id, status |-> stream.status]

\* a poll that records every failure as one of the playlist's content
FailureAsContent(manifest) ==
    [errorType |-> ErrorTypes.PLAYLIST_CONTENT, details |-> Details("empty", 0, 0)]

\* The entry a poll appends when it cannot go on to the evaluation.
FailureOf(manifest) ==
    IF manifest.kind = "masterError"
    THEN [errorType |-> ErrorTypes.MANIFEST_RETRIEVAL,
          details |-> Failure("fetch", manifest.message)]
    ELSE IF manifest.kind = "variantError"
    THEN [errorType |-> ErrorTypes.MANIFEST_RETRIEVAL,
          details |-> Failure("variant", manifest.message)]
    ELSE [errorType |-> ErrorTypes.PLAYLIST_CONTENT, details |-> Details("empty", 0, 0)]

\* a poll that evaluates whatever the fetch has left it with
SuccessfulAlways(manifest) == TRUE

\* a poll is successful when a media playlist with segments was fetched
Successful(manifest) == manifest.kind = "media" /\ manifest.segments > 0

\* a poll that awaits the analysis it has dispatched
DispatchAwaited(s, k) == [s EXCEPT !.sweeps[k].pc = "await"]

\* processSegment(stream, segmentUrl, io) is called and not awaited: the poll
\* of sweep k goes on to save the document.
Dispatch(s, k) == [s EXCEPT !.sweeps[k].pc = "save"]

\* checkStream from the settled fetch to its next await, a stream.save(): a
\* failed fetch or an empty playlist is recorded in the document; otherwise
\* the playlist is evaluated, the poll state is written and the analysis of
\* the last segment is dispatched.  throws holds the kinds of task whose tool
\* throws as it is set up.
PollEval(k, throws) ==
    /\ k \in 1..Len(sweeps)
    /\ sweeps[k].pc = "eval"
    /\ LET sw == sweeps[k]
           id == sw.docs[sw.idx]
           sid == SidOf(id)
           stream == docs[id]
           bad == FailureOf(sw.manifest)
           marked == [addError(stream, bad.errorType, bad.details, now)
                        EXCEPT !.status = "error"]
           ev == Evaluate(stream, GetState(streamState, sid), sw.manifest, sw.now, now)
           ok == Successful(sw.manifest)
       IN \E p \in {IF ok THEN processSegment(Pipe, id, throws) ELSE Pipe},
             s \in {IF ok THEN Dispatch(Sched, k)
                    ELSE [Sched EXCEPT !.sweeps[k].pc = "save"]} :
          /\ streamState' = IF ok THEN SetState(streamState, sid, ev.state)
                            ELSE streamState
          /\ SetPipe(p)
          /\ docs' = Collect([docs EXCEPT ![id] = IF ok THEN ev.stream ELSE marked],
                             s.sweeps, p, saving)
          /\ SetSched(s)
    /\ UNCHANGED <<now, store, saving, metrics, published>>

\* The save that follows the evaluation, or that a failure branch makes,
\* settles; error is the message of the error it fails with, for another
\* reason than a version conflict, or NoError.  The store has taken the
\* document: a failure branch publishes and returns, a successful poll goes
\* on to read the sliding window.  A version conflict: the poll returns.
\* Another error: the catch block marks the document, appends a
\* Manifest-Retrieval entry with the message and saves again.
PollSaved(k, error) ==
    /\ k \in 1..Len(sweeps)
    /\ sweeps[k].pc = "save"
    /\ LET sw == sweeps[k]
           id == sw.docs[sw.idx]
           sid == SidOf(id)
           ok == Successful(sw.manifest)
       IN \E r \in {Save(docs[id], store[sid], now, error # NoError)} :
          \E way \in {SaveOrCatch(r.res)} :
          \E s \in {IF way = "throw" THEN [Sched EXCEPT !.sweeps[k].pc = "catch"]
                    ELSE IF way = "next" /\ ok
                    THEN [Sched EXCEPT !.sweeps[k].pc = "window"]
                    ELSE NextStream(Sched, k, now)} :
          /\ store' = [store EXCEPT ![sid] = r.rec]
          /\ docs' = Collect(
                [AfterSave(docs, id, r) EXCEPT ![id] =
                    IF way = "throw"
                    THEN addError([@ EXCEPT !.status = "error"],
                                  ErrorTypes.MANIFEST_RETRIEVAL,
                                  Failure("thrown", error), now)
                    ELSE @],
                s.sweeps, Pipe, saving)
          /\ SetSched(s)
          /\ published' = IF way = "next" /\ ~ok
                          THEN Append(published, Update(id, r.stream))
                          ELSE published
    /\ UNCHANGED <<now, streamState, activeProcesses, processQueue, executing,
                   futures, saving, metrics>>

\* The save of the catch block settles: on a version conflict the poll
\* returns, otherwise (the store took the document, or the save failed and
\* is logged) it publishes and returns.
PollCaught(k, fails) ==
    /\ k \in 1..Len(sweeps)
    /\ sweeps[k].pc = "catch"
    /\ LET id == sweeps[k].docs[sweeps[k].idx]
           sid == SidOf(id)
       IN \E r \in {Save(docs[id], store[sid], now, fails)},
             s \in {NextStream(Sched, k, now)} :
          /\ store' = [store EXCEPT ![sid] = r.rec]
          /\ docs' = Collect(AfterSave(docs, id, r), s.sweeps, Pipe, saving)
          /\ SetSched(s)
          /\ published' = IF r.res = "VersionError" THEN published
                          ELSE Append(published, Update(id, r.stream))
    /\ UNCHANGED <<now, streamState, activeProcesses, processQueue, executing,
                   futures, saving, metrics>>

\* The read of calculateSlidingWindowMetrics settles: the recent counts are
\* set in the document, the sample is built and MetricsHistory.create is
\* called with it.
PollScore(k, windowFails) ==
    /\ k \in 1..Len(sweeps)
    /\ sweeps[k].pc = "window"
    /\ LET sw == sweeps[k]
           id == sw.docs[sw.idx]
           sid == SidOf(id)
           stream == docs[id]
           recentIssues == calculateSlidingWindowMetrics(store[sid], now, windowFails)
           decayFactor == getErrorDecayFactor(stream.lastErrorTime # Unseen, TRUE,
                                              stream.lastErrorTime, now)
           scored == [stream EXCEPT !.recentErrors = recentIssues.errors,
                                    !.recentSequenceJumps = recentIssues.jumps,
                                    !.recentSequenceResets = recentIssues.resets]
           sample == [doc |-> id,
                      healthScore |-> calculateHealthScore(scored, TRUE, recentIssues,
                                                           decayFactor),
                      status |-> scored.status,
                      mediaSequence |-> CurrentSequence(sw.manifest),
                      errorCount |-> scored.totalErrors]
       IN /\ docs' = [docs EXCEPT ![id] = scored]
          /\ sweeps' = [sweeps EXCEPT ![k].pc = "sample", ![k].sample = sample]
    /\ UNCHANGED <<now, store, streamState, isRunning, timerPending, started,
                   activeProcesses, processQueue, executing, futures, saving,
                   metrics, published>>

\* a historian that writes every sample twice
MetricsHistoryCreateTwice(samples, sample, fails) ==
    IF fails THEN samples ELSE Append(Append(samples, sample), sample)

\* try { await MetricsHistory.create({...}) } catch (histErr) { log }: the
\* sample is appended to the collection, or the write fails and is logged.
MetricsHistoryCreate(samples, sample, fails) ==
    IF fails THEN samples ELSE Append(samples, sample)

\* MetricsHistory.create settles, and the document is saved a second time.
PollSampled(k, histFails) ==
    /\ k \in 1..Len(sweeps)
    /\ sweeps[k].pc = "sample"
    /\ metrics' = MetricsHistoryCreate(metrics, sweeps[k].sample, histFails)
    /\ sweeps' = [sweeps EXCEPT ![k].pc = "again"]
    /\ UNCHANGED <<now, store, docs, streamState, isRunning, timerPending, started,
                   activeProcesses, processQueue, executing, futures, saving,
                   published>>

\* The second save settles: whatever its outcome, the poll publishes and
\* returns.
PollReturns(k, saveFails) ==
    /\ k \in 1..Len(sweeps)
    /\ sweeps[k].pc = "again"
    /\ LET id == sweeps[k].docs[sweeps[k].idx]
           sid == SidOf(id)
       IN \E r \in {Save(docs[id], store[sid], now, saveFails)},
             s \in {NextStream(Sched, k, now)} :
          /\ published' = Append(published, Update(id, r.stream))
          /\ store' = [store EXCEPT ![sid] = r.rec]
          /\ docs' = Collect(AfterSave(docs, id, r), s.sweeps, Pipe, saving)
          /\ SetSched(s)
    /\ UNCHANGED <<now, streamState, activeProcesses, processQueue, executing,
                   futures, saving, metrics>>

\* A task of the pipeline ends.  On "success" the tool's callback updates
\* the document with the result and calls stream.save() without awaiting
\* it; on "error" the callback only resolves.  The finally handler then
\* releases the slot and starts the next queued task.
TaskEnds(task, outcome, result, throws) ==
    /\ task \in executing
    /\ outcome \in {"success", "error"}
    /\ LET id == task.doc
           calls == outcome = "success" /\ Saves(task, result)
           updated == IF outcome = "success" THEN Callback(docs[id], task, result)
                      ELSE docs[id]
       IN \E p \in {Ended(Pipe, task, outcome, throws)},
             s \in {IF calls THEN Called(saving, id) ELSE saving} :
          /\ SetPipe(p)
          /\ saving' = s
          /\ docs' = Collect([docs EXCEPT ![id] = updated], sweeps, p, s)
    /\ UNCHANGED <<now, store, streamState, isRunning, timerPending, sweeps,
                   started, metrics, published>>

\* A save that the callback of a task has called on document id settles: the
\* store has taken the document as it is, or has rejected it; either way the
\* error is dropped.
SaveSettles(id, fails) ==
    /\ id \in DOMAIN saving
    /\ \E r \in {Save(docs[id], store[SidOf(id)], now, fails)} :
          /\ store' = [store EXCEPT ![SidOf(id)] = r.rec]
          /\ saving' = Settled(saving, id)
          /\ docs' = Collect(AfterSave(docs, id, r), sweeps, Pipe, saving')
    /\ UNCHANGED <<now, streamState, isRunning, timerPending, sweeps, started,
                   activeProcesses, processQueue, executing, futures, metrics,
                   published>>

\* a segment with an audio stream, at -20 dB on average and -10 dB at most
Typical == [audio |-> TRUE, mean |-> -20, max |-> -10]

\* A task of the pipeline ends on a typical segment.
TaskSettles(task, outcome) == TaskEnds(task, outcome, Typical, {})

\* ------------------------------------------------------- the specification

\* The store holds one stream record, created with the schema's defaults, the
\* module has been loaded and the exported function has called runMonitor().
InitOver(streams, thresholds) ==
    /\ now = HOUR
    /\ \E th \in thresholds :
          store = [sid \in streams |-> [NewStream EXCEPT !.staleThreshold = th]]
    /\ docs = << >>
    /\ streamState = << >>
    /\ LET s == runMonitor([isRunning |-> FALSE, timerPending |-> 0,
                             sweeps |-> << >>, started |-> 0])
       IN /\ isRunning = s.isRunning
          /\ timerPending = s.timerPending
          /\ sweeps = s.sweeps
          /\ started = s.started
    /\ activeProcesses = 0
    /\ processQueue = << >>
    /\ executing = {}
    /\ futures = << >>
    /\ saving = << >>
    /\ metrics = << >>
    /\ published = << >>

InitWith(thresholds) == InitOver(Streams, thresholds)

\* The process is restarted after its last sweep has started: the module is
\* loaded again with an empty poll-state map, an idle pipeline and no timer,
\* and runMonitor() is called; the store keeps its records, and a save that
\* has not settled is lost.
Restart ==
    /\ started = MaxSweeps
    /\ now < HOUR + MaxSweeps * MONITOR_INTERVAL
    /\ now' = now + Latency
    /\ SetSched(runMonitor([isRunning |-> FALSE, timerPending |-> 0,
                            sweeps |-> << >>, started |-> 0]))
    /\ docs' = << >>
    /\ streamState' = << >>
    /\ activeProcesses' = 0
    /\ processQueue' = << >>
    /\ executing' = {}
    /\ futures' = << >>
    /\ saving' = << >>
    /\ metrics' = << >>
    /\ published' = << >>
    /\ UNCHANGED store

Init == InitWith({StaleThresholdDefault})

\* The steps of the monitor when no save fails for another reason than a
\* version conflict and no tool throws.  maxSweeps bounds the run, delays are
\* the pauses a timer may add, manifests what a fetch may return.
Monitor(maxSweeps, delays, manifests) ==
    \/ \E d \in delays : TimerFires(d, maxSweeps)
    \/ \E k \in 1..Len(sweeps) : FindStreams(k, FALSE)
    \/ \E k \in 1..Len(sweeps), m \in manifests : FetchManifest(k, m)
    \/ \E k \in 1..Len(sweeps) : PollEval(k, {})
    \/ \E k \in 1..Len(sweeps) : PollSaved(k, NoError)
    \/ \E k \in 1..Len(sweeps) : PollScore(k, FALSE)
    \/ \E k \in 1..Len(sweeps) : PollSampled(k, FALSE)
    \/ \E k \in 1..Len(sweeps) : PollReturns(k, FALSE)

\* The first save of a poll fails with one of these messages, and the save
\* of the catch block settles.
Faults(messages, again) ==
    \/ \E k \in 1..Len(sweeps), error \in messages : PollSaved(k, error)
    \/ \E k \in 1..Len(sweeps), fails \in again : PollCaught(k, fails)

\* The tasks of these kinds end on a typical segment, and the saves their
\* callbacks have called settle.
Tasks(kinds) ==
    \/ \E task \in executing, outcome \in {"success", "error"} :
          /\ task.kind \in kinds
          /\ TaskSettles(task, outcome)
    \/ \E id \in DOMAIN saving : SaveSettles(id, FALSE)

Kinds == {"probe", "volume", "sprite"}

Step(maxSweeps, delays, manifests, kinds) ==
    \/ Monitor(maxSweeps, delays, manifests)
    \/ Tasks(kinds)

\* the manifests whose fetch, if it fails, fails with this message
Failing(message) ==
    {m \in Manifests : m.kind \in {"masterError", "variantError"} => m.message = message}

\* Every playlist, over a short run.
Next == Step(MaxSweeps, {Latency}, Failing(ResetByPeer), Kinds)

Spec == Init /\ [][Next]_vars

\* A longer run over fewer playlists: a fetch fails, or the playlist declares
\* media sequence 0 or MaxSeq; the first save of a poll may fail, and of the
\* tasks only the loudness analysis ever ends.
LongManifests ==
    {m \in Failing(Timeout) : \/ m.kind = "masterError"
                              \/ m.hasSeq /\ m.mediaSequence \in {0, MaxSeq}}

NextLong ==
    \/ Step(MaxLongSweeps, {Latency}, LongManifests, {"volume"})
    \/ Faults({Timeout}, {FALSE})

SpecLong == Init /\ [][NextLong]_vars

\* A run of three sweeps over playlists that declare media sequence 0, 1 or
\* MaxSeq, in which of the tasks only the loudness analysis ever ends: a
\* save of its callback may settle after a later sweep has loaded the stream.
NextReset ==
    Step(MaxLongSweeps, {Latency},
         {m \in Manifests : m.kind = "media" /\ m.hasSeq /\ m.mediaSequence \in {0, 1, MaxSeq}},
         {"volume"})

SpecReset == Init /\ [][NextReset]_vars

\* A short run in which the pause between two sweeps may exceed the
\* retention of the ledger.
NextAging == Step(MaxSweeps, Latencies, LongManifests, Kinds)

SpecAging == Init /\ [][NextAging]_vars

\* A run of three sweeps over a playlist that does not move and fetches that
\* fail, for a stream with the default stale threshold or a longer one; the
\* thumbnail task never ends.
StillManifests ==
    {m \in Failing(Timeout) : \/ m.kind = "masterError"
                              \/ m.hasSeq /\ m.mediaSequence = 0}

NextStale == Step(MaxLongSweeps, {Latency}, StillManifests, {"probe", "volume"})

SpecStale == InitWith({StaleThresholdDefault, LongThreshold}) /\ [][NextStale]_vars

\* A run in which loading the stream set may fail.  What the scheduler
\* awaits settles and an armed timer fires; nothing says that an analysis
\* task ever finishes.
MonitorLive ==
    \/ Monitor(MaxSweeps, {Latency}, StillManifests)
    \/ \E k \in 1..Len(sweeps) : FindStreams(k, TRUE)

NextLive ==
    \/ MonitorLive
    \/ Tasks({"volume"})

SpecLive == Init /\ [][NextLive]_vars /\ WF_vars(MonitorLive)

\* A run over a playlist that is fetched every time, in which the tool of
\* the thumbnail task, or of that and the loudness task, may throw as the
\* task sets it up, and in which every task that has started finishes.
MovingManifests == {m \in Manifests : m.hasSeq /\ m.mediaSequence = 0}

AllTasks ==
    {Task(kind, <<n, sid>>) :
        kind \in {"probe", "volume", "sprite"}, n \in 1..MaxSweeps, sid \in Streams}

Throwing == {{}, {"volume", "sprite"}}

Finishes(task) ==
    \E outcome \in {"success", "error"}, throws \in Throwing :
        TaskEnds(task, outcome, Typical, throws)

NextPipe ==
    \/ Monitor(MaxSweeps, {Latency}, MovingManifests)
    \/ \E k \in 1..Len(sweeps) : PollEval(k, {"sprite"})
    \/ \E task \in executing : Finishes(task)
    \/ \E id \in DOMAIN saving : SaveSettles(id, FALSE)

SpecPipe ==
    Init /\ [][NextPipe]_vars /\ \A task \in AllTasks : WF_vars(Finishes(task))

\* A run in which no analysis task ever finishes.
NextStuck == Monitor(MaxLongSweeps, {Latency}, Failing(Timeout))

SpecStuck == Init /\ [][NextStuck]_vars /\ WF_vars(NextStuck)

\* A short run over the playlists of the longer run, after which the process
\* may be restarted once and run again; the thumbnail task never ends.
NextRestart ==
    \/ Step(MaxSweeps, {Latency}, LongManifests, {"probe", "volume"})
    \/ Restart

SpecRestart == Init /\ [][NextRestart]_vars

\* A short run over a playlist that is fetched every time, in which a
\* segment has an audio stream or none and the loudness analysis prints any
\* levels: no line, a line without a number, 0 dB, or a level below the
\* silence threshold; the thumbnail task never ends.
Levels == {Null, NaN, 0, -60}
Results == [audio : BOOLEAN, mean : Levels, max : Levels]

\* what a task of this kind reads of the result
ResultsOf(kind) ==
    IF kind = "probe" THEN {r \in Results : r.mean = Null /\ r.max = Null}
    ELSE IF kind = "volume" THEN {r \in Results : r.audio}
    ELSE {}

NextAudio ==
    \/ Monitor(MaxSweeps, {Latency}, MovingManifests)
    \/ \E task \in executing, outcome \in {"success", "error"} :
          \E result \in ResultsOf(task.kind) : TaskEnds(task, outcome, result, {})
    \/ \E id \in DOMAIN saving : SaveSettles(id, FALSE)

SpecAudio == Init /\ [][NextAudio]_vars

\* A run of three sweeps for a stream with the longer stale threshold, in
\* which the pause between two sweeps may be long: the playlist moves or
\* does not, is empty, or the fetch fails; of the tasks only the loudness
\* analysis ever ends.
StickyManifests == LongManifests \cup {m \in Manifests : m.segments = 0 /\ m.kind = "media"}

NextSticky == Step(MaxLongSweeps, Latencies, StickyManifests, {"volume"})

SpecSticky == InitWith({LongThreshold}) /\ [][NextSticky]_vars

\* A short run of the monitor over two streams in which every save of a
\* poll may fail for another reason than a version conflict: the save after
\* the evaluation or of a failure branch, the save of the catch block, and
\* the second save.
TwoStreams == {"s1", "s2"}

NextTwo ==
    \/ Monitor(MaxSweeps, {Latency}, StillManifests)
    \/ Faults({ResetByPeer}, BOOLEAN)
    \/ \E k \in 1..Len(sweeps) : PollReturns(k, TRUE)

SpecTwo == InitOver(TwoStreams, {StaleThresholdDefault}) /\ [][NextTwo]_vars

\* Another writer of the store saves the record of stream sid: the store is
\* shared, and every save may find the persisted version advanced.  The
\* record keeps its content, and every document this process holds of it is
\* left behind the persisted version.
OtherWriter(sid) ==
    /\ sid \in DOMAIN store
    /\ \E id \in DOMAIN docs : SidOf(id) = sid /\ ~docs[id].conflicts
    /\ docs' = [id \in DOMAIN docs |->
                  IF SidOf(id) = sid THEN [docs[id] EXCEPT !.conflicts = TRUE]
                  ELSE docs[id]]
    /\ UNCHANGED <<now, store, streamState, isRunning, timerPending, sweeps,
                   started, activeProcesses, processQueue, executing, futures,
                   saving, metrics, published>>

\* A short run of the monitor over two streams in which a save may be
\* rejected with a version conflict wherever a poll saves: the loudness
\* analysis of a segment ends and the save of its callback settles while a
\* later sweep polls, the first save of a poll may fail for another reason,
\* and another writer may save a record at any time.
NextConflict ==
    \/ Monitor(MaxSweeps, {Latency}, StillManifests)
    \/ Faults({ResetByPeer}, {FALSE})
    \/ Tasks({"volume"})
    \/ \E sid \in TwoStreams : OtherWriter(sid)

SpecConflict == InitOver(TwoStreams, {StaleThresholdDefault}) /\ [][NextConflict]_vars

\* A short run over every playlist in which the write of a metrics sample
\* may fail.
NextMetrics ==
    \/ Next
    \/ \E k \in 1..Len(sweeps) : PollSampled(k, TRUE)

SpecMetrics == Init /\ [][NextMetrics]_vars

\* ------------------------------------------------ a store with a history

\* The monitor started over a store that holds a record with a history: a
\* time of its last error, and a ledger of up to MaxLedger entries that are
\* recent, as old as the sliding window or a millisecond older, as old as the
\* retention or older, undated, or dated by something that does not parse.
\* The playlist stays at one media sequence, so that the second poll finds
\* the stream stale.

RecordClock == SEVEN_DAYS + 72 * HOUR

LedgerEntries ==
    {[hasDate |-> FALSE, valid |-> FALSE, date |-> 0,
      errorType |-> ErrorTypes.STALE_MANIFEST, details |-> Details("stale", 7100, 0)],
     [hasDate |-> TRUE, valid |-> FALSE, date |-> 0,
      errorType |-> ErrorTypes.STALE_MANIFEST, details |-> Details("stale", 7100, 0)],
     [hasDate |-> TRUE, valid |-> TRUE, date |-> RecordClock - SEVEN_DAYS - 1,
      errorType |-> ErrorTypes.MANIFEST_RETRIEVAL, details |-> Failure("thrown", Timeout)],
     [hasDate |-> TRUE, valid |-> TRUE, date |-> RecordClock - SEVEN_DAYS,
      errorType |-> ErrorTypes.MANIFEST_RETRIEVAL, details |-> Failure("thrown", Timeout)],
     [hasDate |-> TRUE, valid |-> TRUE, date |-> RecordClock - WINDOW_MS - 1,
      errorType |-> ErrorTypes.MANIFEST_RETRIEVAL,
      details |-> Failure("fetch", ResetByPeer)],
     [hasDate |-> TRUE, valid |-> TRUE, date |-> RecordClock - Latency,
      errorType |-> ErrorTypes.MANIFEST_RETRIEVAL,
      details |-> Failure("variant", ResetByPeer)],
     [hasDate |-> TRUE, valid |-> TRUE, date |-> RecordClock - Latency,
      errorType |-> ErrorTypes.MANIFEST_RETRIEVAL,
      details |-> Failure("thrown", Unexpected)],
     [hasDate |-> TRUE, valid |-> TRUE, date |-> RecordClock - WINDOW_MS - 1,
      errorType |-> ErrorTypes.MEDIA_SEQUENCE, details |-> Details("jumped", 0, MaxSeq)],
     [hasDate |-> TRUE, valid |-> TRUE, date |-> RecordClock - WINDOW_MS,
      errorType |-> ErrorTypes.STALE_MANIFEST, details |-> Details("stale", 7100, 0)],
     [hasDate |-> TRUE, valid |-> TRUE, date |-> RecordClock - Latency,
      errorType |-> ErrorTypes.MEDIA_SEQUENCE, details |-> Details("jumped", 0, MaxSeq)],
     [hasDate |-> TRUE, valid |-> TRUE, date |-> RecordClock - Latency,
      errorType |-> ErrorTypes.MEDIA_SEQUENCE, details |-> Details("reset", MaxSeq, 0)]}

Ledgers == UNION {[1..n -> LedgerEntries] : n \in 0..MaxLedger}

\* the times of the last error that give each decay factor
LastErrorTimes ==
    {Unseen, RecordClock, RecordClock - HOUR, RecordClock - 6 * HOUR,
     RecordClock - 24 * HOUR, RecordClock - 72 * HOUR}

\* the number of entries of a ledger that record this
Recorded(ledger, kind) ==
    Len(SelectSeq(ledger, LAMBDA err : err.details.kind = kind))

Records ==
    {[NewStream EXCEPT !.lastErrorTime = last,
                       !.sequenceJumps = Recorded(ledger, "jumped"),
                       !.sequenceResets = Recorded(ledger, "reset"),
                       !.streamErrors = ledger, !.totalErrors = Len(ledger)] :
        last \in LastErrorTimes, ledger \in Ledgers}

\* The module has been loaded at RecordClock and the exported function has
\* called runMonitor().
InitRecord ==
    /\ now = RecordClock
    /\ \E rec \in Records : store = [sid \in Streams |-> rec]
    /\ docs = << >>
    /\ streamState = << >>
    /\ LET s == runMonitor([isRunning |-> FALSE, timerPending |-> 0,
                             sweeps |-> << >>, started |-> 0])
       IN /\ isRunning = s.isRunning
          /\ timerPending = s.timerPending
          /\ sweeps = s.sweeps
          /\ started = s.started
    /\ activeProcesses = 0
    /\ processQueue = << >>
    /\ executing = {}
    /\ futures = << >>
    /\ saving = << >>
    /\ metrics = << >>
    /\ published = << >>

RecordManifests ==
    {m \in Manifests : m.kind = "media" /\ m.hasSeq /\ m.mediaSequence = MaxSeq}

\* The steps of the monitor, no analysis task ending, the read of the
\* sliding window failing or not.
NextRecord ==
    \/ Monitor(MaxSweeps, {Latency}, RecordManifests)
    \/ \E k \in 1..Len(sweeps) : PollScore(k, TRUE)

SpecRecord == InitRecord /\ [][NextRecord]_vars

\* A run of one sweep more than MaxLongSweeps over a stream whose stale
\* threshold is longer than two polls take, and whose record holds recent
\* jumps and resets when the monitor starts: the playlist stays at one media
\* sequence or its fetch fails, a timer may fire a threshold late, and the
\* read of the sliding window may fail.  A poll that finds the sequence
\* unchanged within the threshold leaves status and isStale as the polls
\* before it persisted them.
PatientThreshold == 2 * MONITOR_INTERVAL + LongThreshold

InitScore ==
    /\ now = RecordClock
    /\ \E rec \in {r \in Records :
                     \A i \in 1..Len(r.streamErrors) :
                        /\ r.streamErrors[i].date = RecordClock - Latency
                        /\ r.streamErrors[i].errorType = ErrorTypes.MEDIA_SEQUENCE} :
          store = [sid \in Streams |-> [rec EXCEPT !.staleThreshold = PatientThreshold]]
    /\ docs = << >>
    /\ streamState = << >>
    /\ LET s == runMonitor([isRunning |-> FALSE, timerPending |-> 0,
                             sweeps |-> << >>, started |-> 0])
       IN /\ isRunning = s.isRunning
          /\ timerPending = s.timerPending
          /\ sweeps = s.sweeps
          /\ started = s.started
    /\ activeProcesses = 0
    /\ processQueue = << >>
    /\ executing = {}
    /\ futures = << >>
    /\ saving = << >>
    /\ metrics = << >>
    /\ published = << >>

NextScore ==
    \/ Monitor(MaxLongSweeps + 1, {Latency, PatientThreshold},
               RecordManifests \cup
                 {m \in Manifests : m.kind = "masterError" /\ m.message = ResetByPeer})
    \/ \E k \in 1..Len(sweeps) : PollScore(k, TRUE)

SpecScore == InitScore /\ [][NextScore]_vars

\* ------------------------------------------------------------------ claims

\* the document sweep k is polling, and the poll state cached for a stream
Polled(k) == sweeps[k].docs[sweeps[k].idx]
Cached(sid) == GetState(streamState, sid)

\* the media sequence a playlist declares, 0 when it declares none
Declared(manifest) == IF manifest.hasSeq THEN manifest.mediaSequence ELSE 0

\* The step is one of the poll of sweep k, taken where the poll awaits at.
StepAt(k, at) ==
    /\ k \in 1..Len(sweeps)
    /\ sweeps[k].pc = at
    /\ sweeps' # sweeps
    /\ now' = now

\* The step is the one in which sweep k, having fetched a media playlist with
\* segments, evaluates it.
EvalStep(k) == StepAt(k, "eval") /\ Successful(sweeps[k].manifest)

\* The step is the one in which the first save of the poll of sweep k
\* settles, the second one, or the one in which its sliding window is read.
FirstSaveStep(k) == StepAt(k, "save")
SecondSaveStep(k) == StepAt(k, "again")
ScoreStep(k) == StepAt(k, "window")

\* where a poll is once it has evaluated the playlist
AfterEval == {"save", "catch", "window", "sample", "again"}

\* stream holds an entry of this type and these details, appended at time t
HasEntry(stream, t, errorType, details) ==
    \E i \in 1..Len(stream.streamErrors) :
        /\ stream.streamErrors[i].date = t
        /\ stream.streamErrors[i].errorType = errorType
        /\ stream.streamErrors[i].details = details

\* stream holds an entry of this type appended at time t
HasEntryOfType(stream, t, errorType) ==
    \E i \in 1..Len(stream.streamErrors) :
        /\ stream.streamErrors[i].date = t
        /\ stream.streamErrors[i].errorType = errorType

\* C1: at every moment at most 4 analysis tasks are executing.
C1_AtMostFourExecuting ==
    /\ Cardinality(executing) <= 4
    /\ activeProcesses <= 4

\* C1 witness: all four slots are taken and a task waits in the queue.
C1_Witness ==
    /\ Cardinality(executing) = 4
    /\ Len(processQueue) > 0

\* C2: at most one sweep is in flight, hence at most one poll.
C2_OneSweepInFlight ==
    /\ Len(sweeps) <= 1
    /\ Cardinality({k \in 1..Len(sweeps) :
                      sweeps[k].pc \in {"fetch", "eval"} \cup AfterEval}) <= 1

\* C2 witness: the second sweep is polling, the first one has ended.
C2_Witness ==
    /\ started = 2
    /\ Len(sweeps) = 1
    /\ sweeps[1].pc = "window"

\* C3 as claimed: between two successive successful polls that observe
\* s1 < s2, a difference of 3 or more appends a Media-Sequence entry naming s1
\* and s2 and increments sequenceJumps, a difference of 2 or less appends no
\* entry.
C3_AsClaimed ==
    [][\A k \in 1..Len(sweeps) :
         LET id == Polled(k)
             s1 == Cached(SidOf(id)).lastMediaSequence
             s2 == Declared(sweeps[k].manifest)
         IN EvalStep(k) /\ s1 # Unseen /\ s1 < s2 =>
              /\ s2 - s1 >= 3 =>
                   /\ HasEntry(docs'[id], now, "Media Sequence", Details("jumped", s1, s2))
                   /\ docs'[id].sequenceJumps = docs[id].sequenceJumps + 1
              /\ s2 - s1 <= 2 =>
                   /\ docs'[id].totalErrors = docs[id].totalErrors
                   /\ docs'[id].sequenceJumps = docs[id].sequenceJumps]_vars

\* C3 as amended: a difference of 4 or more (a gap of 3 or more past the
\* expected sequence s1 + 1) appends a Media-Sequence entry naming s1 and s2
\* and increments sequenceJumps; a difference of 3 or less appends no
\* Media-Sequence entry and leaves sequenceJumps unchanged.
C3_JumpFromDifferenceOfFour ==
    [][\A k \in 1..Len(sweeps) :
         LET id == Polled(k)
             s1 == Cached(SidOf(id)).lastMediaSequence
             s2 == Declared(sweeps[k].manifest)
         IN EvalStep(k) /\ s1 # Unseen /\ s1 < s2 =>
              /\ s2 - s1 >= 4 =>
                   /\ HasEntry(docs'[id], now, "Media Sequence", Details("jumped", s1, s2))
                   /\ docs'[id].sequenceJumps = docs[id].sequenceJumps + 1
              /\ s2 - s1 <= 3 =>
                   /\ ~HasEntryOfType(docs'[id], now, "Media Sequence")
                   /\ docs'[id].sequenceJumps = docs[id].sequenceJumps]_vars

\* C3 witness: a poll that had seen sequence 0 has seen MaxSeq and recorded
\* the jump.
C3_Witness ==
    \E id \in DOMAIN docs :
        /\ docs[id].sequenceJumps = 1
        /\ docs[id].mediaSequence - docs[id].previousMediaSequence >= 4
        /\ HasEntry(docs[id], now, "Media Sequence",
                    Details("jumped", docs[id].previousMediaSequence,
                            docs[id].mediaSequence))

\* C4: from its evaluation to its end, a successful poll holds in
\* health.mediaSequence of the polled document the media sequence the fetched
\* playlist declares, 0 when it declares none, and that is what a save of
\* the poll that the store takes persists.
C4_SequenceCommitted ==
    [][\A k \in 1..Len(sweeps) :
         /\ EvalStep(k) =>
              docs'[Polled(k)].mediaSequence = Declared(sweeps[k].manifest)
         /\ /\ sweeps[k].pc \in AfterEval
            /\ Successful(sweeps[k].manifest)
            /\ Polled(k) \in DOMAIN docs'
            => docs'[Polled(k)].mediaSequence = Declared(sweeps[k].manifest)
         /\ /\ FirstSaveStep(k) \/ SecondSaveStep(k)
            /\ Successful(sweeps[k].manifest)
            /\ ~docs[Polled(k)].conflicts
            => store'[SidOf(Polled(k))].mediaSequence = Declared(sweeps[k].manifest)]_vars

\* C4 witness: a playlist without a media sequence was fetched after one
\* that declared MaxSeq, and the document and the record hold 0.
C4_Witness ==
    \E k \in 1..Len(sweeps) :
        /\ sweeps[k].pc = "window"
        /\ ~sweeps[k].manifest.hasSeq
        /\ docs[Polled(k)].previousMediaSequence = MaxSeq
        /\ docs[Polled(k)].mediaSequence = 0
        /\ store[SidOf(Polled(k))].mediaSequence = 0

\* C5 as claimed: the persisted health.mediaSequence of a stream decreases
\* only together with one more persisted reset and a new 'Sequence reset'
\* entry naming the sequence that was persisted and the one that is.
C5_AsClaimed ==
    [][\A sid \in DOMAIN store :
         store'[sid].mediaSequence < store[sid].mediaSequence =>
           /\ store'[sid].sequenceResets = store[sid].sequenceResets + 1
           /\ \E i \in 1..Len(store'[sid].streamErrors) :
                LET err == store'[sid].streamErrors[i]
                IN /\ err.errorType = "Media Sequence"
                   /\ err.details = Details("reset", store[sid].mediaSequence,
                                            store'[sid].mediaSequence)
                   /\ err \notin Range(store[sid].streamErrors)]_vars

\* C5 as amended: a successful poll that observes a media sequence below the
\* cached lastMediaSequence, the one the successful poll before it observed,
\* increments sequenceResets, appends a 'Sequence reset' entry naming both
\* values and adopts the lower value in the document and the cache; and the
\* persisted health.mediaSequence decreases together with one more persisted
\* reset and its new entry whenever the poll that is saved compared the
\* playlist with the sequence that was persisted.
C5_DecreaseOnlyWithReset ==
    /\ [][\A k \in 1..Len(sweeps) :
            LET id == Polled(k)
                last == Cached(SidOf(id)).lastMediaSequence
            IN EvalStep(k) /\ last # Unseen /\ docs'[id].mediaSequence < last =>
                 /\ docs'[id].sequenceResets = docs[id].sequenceResets + 1
                 /\ HasEntry(docs'[id], now, "Media Sequence",
                             Details("reset", last, docs'[id].mediaSequence))
                 /\ docs'[id].mediaSequence = Declared(sweeps[k].manifest)
                 /\ streamState'[SidOf(id)].lastMediaSequence =
                      docs'[id].mediaSequence]_vars
    /\ [][\A sid \in DOMAIN store :
            /\ store'[sid].mediaSequence < store[sid].mediaSequence
            /\ store'[sid].previousMediaSequence = store[sid].mediaSequence
            => /\ store'[sid].sequenceResets = store[sid].sequenceResets + 1
               /\ \E i \in 1..Len(store'[sid].streamErrors) :
                    LET err == store'[sid].streamErrors[i]
                    IN /\ err.errorType = "Media Sequence"
                       /\ err.details = Details("reset", store[sid].mediaSequence,
                                                store'[sid].mediaSequence)
                       /\ err \notin Range(store[sid].streamErrors)]_vars

\* C5 witness: the sequence fell from MaxSeq to 0 between two polls, and the
\* record persisted by the second one holds the lower value, one reset and
\* the entry naming both values.
C5_Witness ==
    /\ store["s1"].mediaSequence = 0
    /\ store["s1"].previousMediaSequence = MaxSeq
    /\ store["s1"].sequenceResets = 1
    /\ \E i \in 1..Len(store["s1"].streamErrors) :
         /\ store["s1"].streamErrors[i].errorType = "Media Sequence"
         /\ store["s1"].streamErrors[i].details = Details("reset", MaxSeq, 0)

\* C6: the persisted totalErrors of a stream never decreases.
C6_PersistedTotalNeverDecreases ==
    [][\A sid \in DOMAIN store :
         store'[sid].totalErrors >= store[sid].totalErrors]_vars

\* C6 witness: a task still holds a document that counts fewer errors than
\* the store does, whose version the store has left behind, and a save of
\* that document is pending.
C6_Witness ==
    \E id \in DOMAIN docs :
        /\ docs[id].conflicts
        /\ docs[id].totalErrors < store[SidOf(id)].totalErrors
        /\ id \in DOMAIN saving
        /\ \E task \in executing : task.doc = id

\* C7: in every state of a stream record, persisted or in memory,
\* totalErrors is at least the number of entries of streamErrors.
C7_TotalCoversLedger ==
    /\ \A sid \in DOMAIN store :
         store[sid].totalErrors >= Len(store[sid].streamErrors)
    /\ \A id \in DOMAIN docs :
         docs[id].totalErrors >= Len(docs[id].streamErrors)

\* C7 witness: the persisted ledger has been aged: it holds an entry, and
\* fewer entries than totalErrors counts.
C7_Witness ==
    \E sid \in DOMAIN store :
        /\ Len(store[sid].streamErrors) > 0
        /\ store[sid].totalErrors > Len(store[sid].streamErrors)

\* C8: after a persistence of a stream record at time now, the persisted
\* streamErrors holds no entry without a date, none whose date does not
\* parse and none dated 7 days or more before now; every entry of the saved
\* document with a date later than 7 days before now is kept.
C8_LedgerAgedOnSave ==
    [][/\ \A sid \in DOMAIN store :
            store'[sid] # store[sid] =>
              \A i \in 1..Len(store'[sid].streamErrors) :
                 LET err == store'[sid].streamErrors[i]
                 IN err.hasDate /\ err.valid /\ err.date > now - SEVEN_DAYS
       /\ \A k \in 1..Len(sweeps) :
            (FirstSaveStep(k) \/ SecondSaveStep(k)) /\ ~docs[Polled(k)].conflicts =>
              \A i \in 1..Len(docs[Polled(k)].streamErrors) :
                 LET err == docs[Polled(k)].streamErrors[i]
                 IN err.hasDate /\ err.valid /\ err.date > now - SEVEN_DAYS =>
                      err \in Range(store'[SidOf(Polled(k))].streamErrors)]_vars

\* C8 witness: a record whose ledger held MaxLedger entries has been saved
\* with the recent jump as the only entry left.
C8_Witness ==
    /\ sweeps = << >>
    /\ started = 1
    /\ \E sid \in DOMAIN store :
         /\ store[sid].totalErrors = MaxLedger
         /\ Len(store[sid].streamErrors) = 1
         /\ store[sid].streamErrors[1].date = now - Latency
         /\ store[sid].streamErrors[1].details.kind = "jumped"

\* C9: the healthScore of every sample a poll writes is within [0, 100].
C9_HealthScoreInRange ==
    \A i \in 1..Len(metrics) :
        /\ metrics[i].healthScore >= 0
        /\ metrics[i].healthScore <= 10000

\* C9 witness: the fourth poll has found the sequence unchanged within the
\* threshold, on a record that the second poll left stale and the third, a
\* failed fetch, in error; with four resets and five errors in its window
\* and no forgiveness the penalties sum to 110, and the sample it has written
\* holds the score 0.
C9_Witness ==
    /\ started = MaxLongSweeps + 1
    /\ metrics # << >>
    /\ metrics[1].healthScore = 0
    /\ metrics[1].status = "error"
    /\ store[SidOf(metrics[1].doc)].isStale
    /\ store[SidOf(metrics[1].doc)].recentSequenceResets = MaxLedger + 1
    /\ store[SidOf(metrics[1].doc)].recentSequenceJumps = 0
    /\ store[SidOf(metrics[1].doc)].recentErrors = MaxLedger + 2

\* The step has run the catch block of checkStream on document id: the block
\* appends a Manifest-Retrieval entry.
EndedByCatch(id) == HasEntryOfType(docs'[id], now, "Manifest Retrieval")

\* C10: a successful poll that observes a media sequence different from the
\* cached one leaves isStale = false, timeSinceLastUpdate = 0,
\* consecutiveStales = 0 and status = online, and unless its catch block
\* runs no later step of the poll, and no task, changes them.
C10_UpdateClearsStaleness ==
    [][\A k \in 1..Len(sweeps) :
         /\ LET id == Polled(k)
                sid == SidOf(id)
            IN EvalStep(k) /\ Declared(sweeps[k].manifest) # Cached(sid).lastMediaSequence =>
                 /\ docs'[id].isStale = FALSE
                 /\ docs'[id].timeSinceLastUpdate = 0
                 /\ streamState'[sid].consecutiveStales = 0
                 /\ docs'[id].status = "online"
         /\ /\ sweeps[k].pc \in AfterEval
            /\ Successful(sweeps[k].manifest)
            /\ Polled(k) \in DOMAIN docs'
            => /\ docs'[Polled(k)].isStale = docs[Polled(k)].isStale
               /\ docs'[Polled(k)].timeSinceLastUpdate = docs[Polled(k)].timeSinceLastUpdate
               /\ streamState' = streamState
               /\ \/ docs'[Polled(k)].status = docs[Polled(k)].status
                  \/ sweeps[k].pc = "save" /\ EndedByCatch(Polled(k))]_vars

\* C10 witness: a stream that an earlier poll found stale is online again,
\* the playlist having moved, and the store has taken the save.
C10_Witness ==
    \E k \in 1..Len(sweeps) :
        /\ sweeps[k].pc = "window"
        /\ docs[Polled(k)].status = "online"
        /\ ~docs[Polled(k)].isStale
        /\ store[SidOf(Polled(k))].status = "online"
        /\ docs[Polled(k)].mediaSequence # docs[Polled(k)].previousMediaSequence
        /\ \E i \in 1..Len(docs[Polled(k)].streamErrors) :
              docs[Polled(k)].streamErrors[i].errorType = "Stale Manifest"

\* the number of entries of this type that stream holds, appended at time t
EntriesOfType(stream, t, errorType) ==
    Len(SelectSeq(stream.streamErrors,
                  LAMBDA err : err.date = t /\ err.errorType = errorType))

\* C11: a successful poll that observes the cached media sequence increments
\* consecutiveStales and sets timeSinceLastUpdate to the poll's now minus the
\* cached lastPollTime; if that time exceeds the stream's staleThreshold the
\* poll sets isStale and status = stale and appends exactly one
\* Stale-Manifest entry, and otherwise it leaves isStale and status as they
\* were and appends no such entry.
C11_StaleIffThresholdExceeded ==
    [][\A k \in 1..Len(sweeps) :
         LET id == Polled(k)
             sid == SidOf(id)
             elapsed == sweeps[k].now - Cached(sid).lastPollTime
         IN EvalStep(k) /\ Declared(sweeps[k].manifest) = Cached(sid).lastMediaSequence =>
              /\ streamState'[sid].consecutiveStales = Cached(sid).consecutiveStales + 1
              /\ docs'[id].timeSinceLastUpdate = elapsed
              /\ elapsed > docs[id].staleThreshold =>
                   /\ docs'[id].isStale
                   /\ docs'[id].status = "stale"
                   /\ EntriesOfType(docs'[id], now, "Stale Manifest") = 1
              /\ elapsed <= docs[id].staleThreshold =>
                   /\ docs'[id].isStale = docs[id].isStale
                   /\ docs'[id].status = docs[id].status
                   /\ EntriesOfType(docs'[id], now, "Stale Manifest") = 0]_vars

\* C11 witness: a stream with the longer threshold has been polled twice on
\* the same media sequence without being found stale, and a third poll, the
\* second fetch having failed, finds it stale.
C11_Witness ==
    \E k \in 1..Len(sweeps) :
        /\ sweeps[k].pc = "window"
        /\ docs[Polled(k)].staleThreshold = LongThreshold
        /\ docs[Polled(k)].isStale
        /\ docs[Polled(k)].status = "stale"
        /\ docs[Polled(k)].timeSinceLastUpdate > LongThreshold
        /\ Cached(SidOf(Polled(k))).consecutiveStales = 1

\* The fetch of the manifest, or of the selected variant, has failed in the
\* poll of sweep k.
FetchFailed(k) == sweeps[k].manifest.kind \in {"masterError", "variantError"}

\* The step is the one in which sweep k handles a fetch that has failed.
FailStep(k) == StepAt(k, "eval") /\ FetchFailed(k)

\* The step marks the polled document in error with exactly one
\* Manifest-Retrieval entry more, dispatches no analysis, and leaves the
\* poll at its save.
MarkedInError(k) ==
    LET id == Polled(k)
    IN /\ docs'[id].status = "error"
       /\ docs'[id].totalErrors = docs[id].totalErrors + 1
       /\ Len(docs'[id].streamErrors) = Len(docs[id].streamErrors) + 1
       /\ EntriesOfType(docs'[id], now, "Manifest Retrieval") = 1
       /\ activeProcesses' = activeProcesses
       /\ processQueue' = processQueue
       /\ executing' = executing
       /\ store' = store
       /\ sweeps' = [sweeps EXCEPT ![k].pc = "save"]

\* The step writes no sample, dispatches no analysis and ends the poll of
\* the stream sweep k was polling: the sweep has ended or polls a later
\* stream.
ReturnsAtOnce(k) ==
    /\ activeProcesses' = activeProcesses
    /\ processQueue' = processQueue
    /\ executing' = executing
    /\ metrics' = << >>
    /\ \A j \in 1..Len(sweeps') :
         sweeps'[j].n = sweeps[k].n => sweeps'[j].idx > sweeps[k].idx

\* The step has persisted the polled record in error with exactly one
\* Manifest-Retrieval entry of this poll, and has published stream:update.
PersistedInError(k) ==
    LET id == Polled(k)
        sid == SidOf(id)
    IN /\ store'[sid].status = "error"
       /\ store'[sid].totalErrors = docs[id].totalErrors
       /\ EntriesOfType(store'[sid], now, "Manifest Retrieval") = 1
       /\ published' = <<[name |-> "stream:update", doc |-> id, status |-> "error"]>>

\* C12 as claimed: a failed fetch always ends with the record persisted in
\* error with one Manifest-Retrieval entry and stream:update published, with
\* no retry, no dispatch and no sample.
C12_AsClaimed ==
    [][\A k \in 1..Len(sweeps) :
         /\ FailStep(k) => MarkedInError(k)
         /\ FirstSaveStep(k) /\ FetchFailed(k) =>
              PersistedInError(k) /\ ReturnsAtOnce(k)]_vars

\* C12 as amended: a failed fetch marks the document in error with one
\* Manifest-Retrieval entry and ends the poll with no retry, no dispatch and
\* no sample; the record is persisted and stream:update is published when
\* the store takes the save, and nothing is persisted or published when the
\* store rejects it with a version conflict.
C12_FailedFetchEndsPoll ==
    [][\A k \in 1..Len(sweeps) :
         /\ FailStep(k) => MarkedInError(k)
         /\ FirstSaveStep(k) /\ FetchFailed(k) =>
              /\ ReturnsAtOnce(k)
              /\ IF docs[Polled(k)].conflicts
                 THEN store' = store /\ published' = << >>
                 ELSE PersistedInError(k)]_vars

\* C12 witness: the poll of a failed fetch has ended, the record is persisted
\* in error and published, and no sample was written.
C12_Witness ==
    /\ published # << >>
    /\ metrics = << >>
    /\ \E sid \in DOMAIN store :
         /\ store[sid].status = "error"
         /\ EntriesOfType(store[sid], now, "Manifest Retrieval") = 1
         /\ published[1].status = "error"
         /\ SidOf(published[1].doc) = sid

\* The step ends sweep k normally: the guard is lowered and the next run is
\* scheduled.
SweepEnds(k) ==
    /\ \A j \in 1..Len(sweeps') : sweeps'[j].n # sweeps[k].n
    /\ isRunning' = FALSE
    /\ timerPending' = timerPending + 1

\* The step ends the poll of sweep k and the sweep goes on: it fetches for
\* its next stream, or all its streams are polled and it ends normally.
SweepGoesOn(k) ==
    LET sw == sweeps[k]
    IN IF sw.idx < Len(sw.docs)
       THEN /\ Len(sweeps') = Len(sweeps)
            /\ sweeps'[k] = [sw EXCEPT !.idx = sw.idx + 1, !.pc = "fetch",
                                       !.now = now, !.manifest = NoManifest,
                                       !.sample = NoSample]
            /\ isRunning'
       ELSE SweepEnds(k)

\* The step leaves the store as it is and the polled document, if it is
\* still held, with its status, its ledger and its count of errors.
SaveDropped(k) ==
    LET id == Polled(k)
    IN /\ store' = store
       /\ id \in DOMAIN docs' =>
            /\ docs'[id].status = docs[id].status
            /\ docs'[id].streamErrors = docs[id].streamErrors
            /\ docs'[id].totalErrors = docs[id].totalErrors

\* C13: when a save of a poll is rejected with a version conflict, nothing
\* is persisted, the save is not made again, the document keeps its status,
\* its ledger and its count of errors, the catch block is not entered, and
\* the sweep goes on: it fetches for the next stream it loaded, or ends
\* normally after the last one.  After the first save and the save of the
\* catch block nothing is published and no sample is written; after the
\* second save the update of the poll is published.
C13_ConflictDropsSave ==
    [][\A k \in 1..Len(sweeps) :
         /\ PollSaved(k, NoError) /\ docs[Polled(k)].conflicts =>
              /\ SaveDropped(k)
              /\ published' = << >>
              /\ metrics' = << >>
              /\ SweepGoesOn(k)
         /\ PollCaught(k, FALSE) /\ docs[Polled(k)].conflicts =>
              /\ SaveDropped(k)
              /\ published' = << >>
              /\ metrics' = << >>
              /\ SweepGoesOn(k)
         /\ PollReturns(k, FALSE) /\ docs[Polled(k)].conflicts =>
              /\ SaveDropped(k)
              /\ published' = <<Update(Polled(k), docs[Polled(k)])>>
              /\ metrics' = metrics
              /\ SweepGoesOn(k)]_vars

\* C13 witness: the second sweep fetches for its second stream after the
\* first save of the poll of its first stream was rejected: the document of
\* that poll is behind the persisted version and holds the stale state the
\* poll found, the record does not, and nothing was published.
C13_Witness ==
    /\ Len(sweeps) = 1
    /\ sweeps[1].n = MaxSweeps
    /\ sweeps[1].idx = 2
    /\ sweeps[1].pc = "fetch"
    /\ published = << >>
    /\ LET id == sweeps[1].docs[1]
       IN /\ docs[id].conflicts
          /\ docs[id].status = "stale"
          /\ store[SidOf(id)].status = "online"

\* C14: a sweep that ends, normally or by an error, lowers the guard and arms
\* one timer; a sweep starts only when a timer fires, 7000 ms or more after
\* the sweep before it ended; and every sweep is followed by a next one.
C14_LoopNeverStops ==
    /\ [][\A k \in 1..Len(sweeps) :
            (\A j \in 1..Len(sweeps') : sweeps'[j].n # sweeps[k].n) =>
               isRunning' = FALSE /\ timerPending' = timerPending + 1]_vars
    /\ [][started' # started =>
            /\ started' = started + 1
            /\ timerPending' = timerPending - 1
            /\ now' >= now + MONITOR_INTERVAL]_vars
    /\ \A n \in 1..(MaxSweeps - 1) : (started = n) ~> (started = n + 1)

\* C14 witness: loading the stream set failed in the first sweep, which left
\* the store and the poll state untouched, and the second sweep has started.
C14_Witness ==
    /\ started = MaxSweeps
    /\ Len(sweeps) = 1
    /\ streamState = << >>
    /\ \A sid \in DOMAIN store : store[sid] = NewStream

\* C15: the queue is first in, first out.  A step that adds to the queue
\* adds at its end; a task that starts from the queue is the oldest one; and
\* a completion, when the queue is not empty, starts exactly that task.
C15_QueueIsFifo ==
    [][/\ Len(processQueue') >= Len(processQueue) =>
            SubSeq(processQueue', 1, Len(processQueue)) = processQueue
       /\ \A task \in executing' \ executing :
            task \in Range(processQueue) =>
              /\ task = Head(processQueue)
              /\ processQueue' = Tail(processQueue)
       /\ \A task \in executing \ executing' :
            processQueue # << >> =>
              /\ executing' = (executing \ {task}) \cup {Head(processQueue)}
              /\ processQueue' = Tail(processQueue)]_vars

\* C15 witness: of the two tasks the second sweep had to queue, the one
\* submitted first has been started and the other one still waits.
C15_Witness ==
    /\ Cardinality(executing) = 4
    /\ Len(processQueue) = 1
    /\ processQueue[1].kind = "sprite"
    /\ [kind |-> "volume", doc |-> processQueue[1].doc] \in executing

\* the tasks that finish in the step
NewlySettled ==
    {task \in DOMAIN futures' :
        /\ futures'[task].settled # "no"
        /\ task \notin DOMAIN futures \/ futures[task].settled = "no"}

\* C16: whenever a task finishes, its promise fulfilled or rejected, the slot
\* it held is released once and goes to the oldest queued task if there is
\* one, and the promise returned at its submission is resolved; no such
\* promise is ever rejected.  In a step that submits nothing, n tasks
\* finishing start the n oldest queued tasks, or all of them if they are
\* fewer.
C16_FailureReleasesSlot ==
    /\ [][/\ \A task \in NewlySettled :
               /\ futures'[task].future = "resolved"
               /\ task \notin executing'
          /\ DOMAIN futures' = DOMAIN futures =>
               LET n == Cardinality(NewlySettled)
                   m == Min(n, Len(processQueue))
               IN /\ activeProcesses' = activeProcesses - n + m
                  /\ processQueue' = SubSeq(processQueue, m + 1, Len(processQueue))
                  /\ \A i \in 1..m :
                       processQueue[i] \in executing' \cup NewlySettled]_vars
    /\ [](\A task \in DOMAIN futures : futures[task].future # "rejected")
    /\ [](activeProcesses = Cardinality(executing))

\* C16 witness: the promise of a task of the first sweep was rejected; the
\* promise returned at its submission is resolved, its slot was released and
\* the tasks the second sweep had to queue have been started.
C16_Witness ==
    /\ \E task \in DOMAIN futures :
         /\ futures[task].settled = "rejected"
         /\ futures[task].future = "resolved"
         /\ task.doc[1] = 1
    /\ processQueue = << >>
    /\ \E task \in executing : task.kind = "sprite" /\ task.doc[1] = MaxSweeps
    /\ Cardinality(executing) = 4

\* C17: the promise returned at the submission of a task is not resolved
\* before the task has finished, a task that is executing has not finished,
\* and, every started task finishing, every submitted task is eventually
\* started and its promise eventually resolved.
C17_EveryTaskRuns ==
    /\ [](\A task \in DOMAIN futures :
            /\ futures[task].future = "resolved" => futures[task].settled # "no"
            /\ task \in executing => futures[task].settled = "no"
            /\ task \in Range(processQueue) => futures[task].settled = "no")
    /\ [][\A task \in NewlySettled :
            task \in executing \/ task \in Range(processQueue) \/ task \notin DOMAIN futures]_vars
    /\ \A task \in AllTasks :
         (task \in DOMAIN futures) ~>
            (task \in DOMAIN futures /\ futures[task].future = "resolved")

\* C17 witness: the last task of the second sweep, which was submitted when
\* no slot was free, has run and its promise is resolved, while two tasks of
\* the first sweep are still executing.
C17_Witness ==
    /\ [kind |-> "sprite", doc |-> <<MaxSweeps, "s1">>] \in DOMAIN futures
    /\ futures[[kind |-> "sprite", doc |-> <<MaxSweeps, "s1">>]].future = "resolved"
    /\ Cardinality({task \in executing : task.doc[1] = 1}) >= 2

\* C18: no analysis task ever finishing, every sweep that has started ends,
\* and is followed by the next one.
C18_DispatchDoesNotBlock ==
    /\ [](\A task \in DOMAIN futures : futures[task].settled = "no")
    /\ \A n \in 1..MaxLongSweeps :
         (started = n /\ sweeps # << >>) ~> (started = n /\ sweeps = << >>)
    /\ \A n \in 1..(MaxLongSweeps - 1) : (started = n) ~> (started = n + 1)

\* C18 witness: the last sweep has ended after it dispatched its analysis
\* with all four slots busy, behind a queue that has grown with every sweep.
C18_Witness ==
    /\ started = MaxLongSweeps
    /\ sweeps = << >>
    /\ Cardinality(executing) = 4
    /\ Len(processQueue) = 3 * MaxLongSweeps - 4
    /\ metrics # << >>

\* The step ends the poll sweep k was in: the sweep has ended or polls a
\* later stream.
PollEnds(k) ==
    /\ k \in 1..Len(sweeps)
    /\ sweeps[k].pc \in {"save", "catch", "again"}
    /\ \A j \in 1..Len(sweeps') :
         sweeps'[j].n = sweeps[k].n => sweeps'[j].idx > sweeps[k].idx

\* the samples are exactly one sample, of the document sweep k is polling
OneSampleOf(samples, k) ==
    /\ Len(samples) = 1
    /\ samples[1].doc = Polled(k)

\* C19 as claimed: every poll of a stream writes exactly one metrics sample
\* for that stream.
C19_AsClaimed ==
    [][\A k \in 1..Len(sweeps) :
         PollEnds(k) => OneSampleOf(metrics', k)]_vars

\* C19 as amended: a poll that ends at its first save (the fetch failed, the
\* playlist is empty, or the save after the evaluation was rejected) has
\* written no sample; a poll that has read its sliding window writes exactly
\* one sample for its stream, or none when the write of the sample fails,
\* and ends at its second save, which writes none.
C19_OneSamplePerScoredPoll ==
    [][\A k \in 1..Len(sweeps) :
         /\ PollEnds(k) /\ sweeps[k].pc = "save" => metrics' = << >>
         /\ StepAt(k, "sample") =>
              IF PollSampled(k, TRUE)
              THEN metrics' = << >>
              ELSE OneSampleOf(metrics', k)
         /\ SecondSaveStep(k) =>
              /\ PollEnds(k)
              /\ metrics' = metrics
              /\ metrics = << >> \/ OneSampleOf(metrics, k)]_vars

\* C19 witness: the second sweep has ended and its poll has written one
\* sample, after a first poll that ended on a failed fetch and wrote none.
C19_Witness ==
    /\ sweeps = << >>
    /\ Len(metrics) = 1
    /\ metrics[1].doc = <<MaxSweeps, "s1">>
    /\ \E i \in 1..Len(store["s1"].streamErrors) :
         store["s1"].streamErrors[i].errorType = "Manifest Retrieval"

\* the positions of the entries of a ledger dated at most 12 minutes before t
Recent(ledger, t) ==
    {i \in 1..Len(ledger) :
        /\ ledger[i].hasDate
        /\ ledger[i].valid
        /\ t - ledger[i].date <= 12 * 60 * 1000}

\* the entry reads as a jump, or as a reset: it records one, or it records a
\* failure whose message holds the words
ReadsAsJump(err) == err.details.kind = "jumped" \/ err.details.message \in WithJumped
ReadsAsReset(err) == err.details.kind = "reset" \/ err.details.message \in WithReset

\* C20: the poll that reads its sliding window sets recentErrors to the
\* number of entries of the ledger persisted for the stream that are dated
\* within the last 12 minutes, and recentSequenceJumps and
\* recentSequenceResets to the numbers of the entries among them that read
\* as a jump and as a reset; an older entry counts in none of the three.  All
\* three are 0 when the ledger cannot be read.  The second save of the poll
\* persists the three.
C20_RecentCountsAreWindowed ==
    [][\A k \in 1..Len(sweeps) :
         /\ ScoreStep(k) =>
              LET ledger == store[SidOf(Polled(k))].streamErrors
                  recent == Recent(ledger, now)
                  after == docs'[Polled(k)]
              IN IF PollScore(k, TRUE)
                 THEN /\ after.recentErrors = 0
                      /\ after.recentSequenceJumps = 0
                      /\ after.recentSequenceResets = 0
                 ELSE /\ after.recentErrors = Cardinality(recent)
                      /\ after.recentSequenceJumps =
                           Cardinality({i \in recent : ReadsAsJump(ledger[i])})
                      /\ after.recentSequenceResets =
                           Cardinality({i \in recent : ReadsAsReset(ledger[i])})
         /\ SecondSaveStep(k) /\ ~docs[Polled(k)].conflicts =>
              LET before == docs[Polled(k)]
                  after == store'[SidOf(Polled(k))]
              IN /\ after.recentErrors = before.recentErrors
                 /\ after.recentSequenceJumps = before.recentSequenceJumps
                 /\ after.recentSequenceResets = before.recentSequenceResets]_vars

\* C20 witness: a poll has counted the stale entry dated exactly 12 minutes
\* ago and, as an error and as a reset, the failed fetch of a variant whose
\* message tells of a reset, and has not counted the failed fetch dated a
\* millisecond before the window, which the persisted ledger still holds.
C20_Witness ==
    /\ sweeps = << >>
    /\ store["s1"].recentErrors = 2
    /\ store["s1"].recentSequenceJumps = 0
    /\ store["s1"].recentSequenceResets = 1
    /\ Len(store["s1"].streamErrors) = 3
    /\ \E i \in 1..3 :
         /\ store["s1"].streamErrors[i].date = now - WINDOW_MS - 1
         /\ store["s1"].streamErrors[i].details = Failure("fetch", ResetByPeer)
    /\ \E i \in 1..3 :
         /\ store["s1"].streamErrors[i].date = now - WINDOW_MS
         /\ store["s1"].streamErrors[i].details.kind = "stale"
    /\ \E i \in 1..3 :
         store["s1"].streamErrors[i].details = Failure("variant", ResetByPeer)

\* The step is one in which a save of the poll of sweep k fails for another
\* reason than a version conflict: the first save, the save of the catch
\* block, or the second save.
SaveErrorStep(k) ==
    \/ PollSaved(k, ResetByPeer)
    \/ PollCaught(k, TRUE)
    \/ PollReturns(k, TRUE)

\* The step takes the poll of sweep k to its catch block, on the same stream.
GoesToCatch(k) ==
    /\ Len(sweeps') = Len(sweeps)
    /\ sweeps'[k] = [sweeps[k] EXCEPT !.pc = "catch"]
    /\ isRunning'

\* C21: a save of a poll that fails for another reason than a version
\* conflict does not end the sweep: the first save takes the poll to its
\* catch block, and the save of the catch block and the second save end the
\* poll with the sweep going on to the next stream it loaded, or ending after
\* its last one; a sweep that has loaded its streams never ends before it has
\* polled the last of them.
C21_SaveErrorKeepsSweep ==
    [][\A k \in 1..Len(sweeps) :
         /\ SaveErrorStep(k) =>
              IF sweeps[k].pc = "save" THEN GoesToCatch(k) ELSE SweepGoesOn(k)
         /\ StepAt(k, "catch") => SweepGoesOn(k)
         /\ sweeps[k].pc # "find" /\ SweepEnds(k) =>
              sweeps[k].idx = Len(sweeps[k].docs)]_vars

\* C21 witness: the sweep fetches for its second stream after the poll of
\* the first ended in the catch block, whose save failed too: the first
\* record is persisted as it was created and the poll has published its
\* update.
C21_Witness ==
    /\ Len(sweeps) = 1
    /\ sweeps[1].n = 1
    /\ sweeps[1].idx = 2
    /\ sweeps[1].pc = "fetch"
    /\ store["s1"] = NewStream
    /\ store["s2"] = NewStream
    /\ published # << >>
    /\ published[1].status = "error"
    /\ published[1].doc = <<1, "s1">>

\* C22: a successful poll writes the poll state of its stream once, with the
\* outcome of the freshness check: the poll's time, the media sequence it
\* observed, and consecutiveStales counted up when that sequence is the
\* cached one and 0 otherwise; the poll state of every other stream is left
\* alone.  No other step writes poll state: not a poll that ends in a fetch
\* failure or an empty playlist, not the scoring step, not a pipeline task.
C22_PollStateWrittenOnce ==
    [][/\ \A k \in 1..Len(sweeps) :
            EvalStep(k) =>
              LET sid == SidOf(Polled(k))
                  seq == Declared(sweeps[k].manifest)
              IN /\ DOMAIN streamState' = DOMAIN streamState \cup {sid}
                 /\ streamState'[sid] =
                      [lastPollTime |-> sweeps[k].now,
                       lastMediaSequence |-> seq,
                       consecutiveStales |->
                          IF seq = Cached(sid).lastMediaSequence
                          THEN Cached(sid).consecutiveStales + 1
                          ELSE 0]
                 /\ \A other \in DOMAIN streamState \ {sid} :
                      streamState'[other] = streamState[other]
       /\ (\A k \in 1..Len(sweeps) : ~EvalStep(k)) => streamState' = streamState]_vars

\* C22 witness: the second poll of a stream has ended on an empty playlist,
\* or on a failed fetch, and the poll state is the one the first poll wrote,
\* while tasks of the first poll have finished and others are executing.
C22_Witness ==
    /\ started = MaxSweeps
    /\ sweeps = << >>
    /\ store["s1"].status = "error"
    /\ "s1" \in DOMAIN streamState
    /\ streamState["s1"] = [lastPollTime |-> HOUR, lastMediaSequence |-> MaxSeq,
                            consecutiveStales |-> 0]
    /\ now > HOUR
    /\ activeProcesses \in 1..2

\* The step is a successful poll by sweep k of a stream for which no poll
\* state is cached.
FirstObservation(k) ==
    /\ EvalStep(k)
    /\ SidOf(Polled(k)) \notin DOMAIN streamState

\* C23: a successful poll of a stream without cached poll state, at its first
\* observation or after a restart, appends no ledger entry and leaves
\* totalErrors, sequenceJumps and sequenceResets as they were, whatever the
\* playlist declares and the record holds; the document is online and not
\* stale, and its previousMediaSequence is -1.
C23_FirstObservationRecordsNothing ==
    [][\A k \in 1..Len(sweeps) :
         FirstObservation(k) =>
           LET before == docs[Polled(k)]
               after == docs'[Polled(k)]
           IN /\ \A i \in 1..Len(after.streamErrors) : after.streamErrors[i].date # now
              /\ Len(after.streamErrors) <= Len(before.streamErrors)
              /\ after.totalErrors = before.totalErrors
              /\ after.sequenceJumps = before.sequenceJumps
              /\ after.sequenceResets = before.sequenceResets
              /\ after.status = "online"
              /\ ~after.isStale
              /\ after.previousMediaSequence = -1
              /\ after.mediaSequence = Declared(sweeps[k].manifest)]_vars

\* C23 witness: the run before the restart saw the sequence jump from 0 to
\* MaxSeq; the first poll after the restart has seen 0 and has recorded no
\* reset.
C23_Witness ==
    \E k \in 1..Len(sweeps) :
        /\ started = 1
        /\ now > HOUR + MONITOR_INTERVAL
        /\ sweeps[k].pc = "window"
        /\ docs[Polled(k)].sequenceJumps = 1
        /\ docs[Polled(k)].sequenceResets = 0
        /\ docs[Polled(k)].totalErrors = 1
        /\ docs[Polled(k)].previousMediaSequence = -1
        /\ docs[Polled(k)].mediaSequence = 0
        /\ docs[Polled(k)].status = "online"

\* The step is the success of the loudness task with at least one level
\* measured.
LoudnessStep(task, result) ==
    /\ task.kind = "volume"
    /\ Valid(result.mean) # Null \/ Valid(result.max) # Null
    /\ task \notin executing'
    /\ TaskEnds(task, "success", result, {})

\* The step is the success of the probe task on a segment, after the
\* loudness task of that segment has ended.
ProbeAfterLoudness(task, result) ==
    /\ task.kind = "probe"
    /\ Task("volume", task.doc) \in DOMAIN futures
    /\ futures[Task("volume", task.doc)].settled = "fulfilled"
    /\ task \notin executing'
    /\ TaskEnds(task, "success", result, {})

\* the loudness fields that hold what the analysis has measured
Measured(result) ==
    [avgDb |-> Valid(result.mean),
     peakDb |-> Valid(result.max),
     isSilent |-> Valid(result.max) # Null /\ Valid(result.max) < -50]

\* After the step the document id carries these loudness fields, and a save
\* of the document is pending.
AudioAfter(id, audio) ==
    /\ id \in DOMAIN docs'
    /\ docs'[id].audio = audio
    /\ id \in DOMAIN saving'

\* A save of a task that settles persists the loudness fields of its
\* document, if the store takes it.
AudioSaved ==
    \A id \in DOMAIN saving :
        SaveSettles(id, FALSE) /\ ~docs[id].conflicts =>
           store'[SidOf(id)].audio = docs[id].audio

\* C24 as claimed: the loudness task that succeeds with a measured level
\* sets avgDb, peakDb and isSilent to what it measured, whether the probe of
\* the segment has ended or not, a probe that ends after the loudness task
\* leaves the three fields as they are, and the saves persist them.
C24_AsClaimed ==
    [][/\ \A task \in executing, result \in Results :
            /\ LoudnessStep(task, result) => AudioAfter(task.doc, Measured(result))
            /\ ProbeAfterLoudness(task, result) =>
                 AudioAfter(task.doc, docs[task.doc].audio)
       /\ AudioSaved]_vars

\* C24, what the code does: the loudness task sets the three fields to what
\* it measured; a probe that ends after it and finds an audio stream keeps
\* isSilent and every level but one of exactly 0 dB, which it replaces by
\* null; the saves persist the fields as they are when they settle.
C24_ProbeDropsZeroLevel ==
    [][/\ \A task \in executing, result \in Results :
            /\ LoudnessStep(task, result) => AudioAfter(task.doc, Measured(result))
            /\ ProbeAfterLoudness(task, result) =>
                 LET audio == docs[task.doc].audio
                 IN AudioAfter(task.doc,
                       IF result.audio
                       THEN [avgDb |-> IF audio.avgDb = 0 THEN Null ELSE audio.avgDb,
                             peakDb |-> IF audio.peakDb = 0 THEN Null ELSE audio.peakDb,
                             isSilent |-> audio.isSilent]
                       ELSE audio)
       /\ AudioSaved]_vars

\* C24 witness: the loudness task of the first segment measured -60 dB on
\* average and 0 dB at most, the probe of the segment ended after it, and
\* the persisted record holds the average and no peak.
C24_Witness ==
    /\ store["s1"].audio = [avgDb |-> -60, peakDb |-> Null, isSilent |-> FALSE]
    /\ Task("probe", <<1, "s1">>) \in DOMAIN futures
    /\ futures[Task("probe", <<1, "s1">>)].future = "resolved"
    /\ futures[Task("volume", <<1, "s1">>)].future = "resolved"
    /\ started = 1

\* After the step the poll state cached for the stream sweep k is polling
\* holds the media sequence persisted for it.
CacheMatchesStore(k) ==
    LET sid == SidOf(Polled(k))
    IN sid \in DOMAIN streamState' =>
         streamState'[sid].lastMediaSequence = store'[sid].mediaSequence

C26_QueuedOnlyWhenFull ==
    /\ processQueue # << >> =>
         /\ Cardinality(executing) = 4
         /\ activeProcesses = 4
    /\ activeProcesses >= 0

\* C26 witness: a task of the first poll has ended, its promise rejected, and
\* the second poll has filled the slots again and queued a task.
C26_Witness ==
    /\ Len(processQueue) = 1
    /\ Cardinality(executing) = 4
    /\ activeProcesses = 4
    /\ \E task \in DOMAIN futures : futures[task].settled = "rejected"

\* The poll of sweep k has fetched a playlist with segments whose media
\* sequence is not the cached one.
ObservesChange(k) ==
    /\ sweeps[k].manifest.kind = "media"
    /\ sweeps[k].manifest.segments > 0
    /\ Declared(sweeps[k].manifest) # Cached(SidOf(Polled(k))).lastMediaSequence

\* C27: a poll that finds isStale true on its document leaves it true when
\* the fetch fails, the playlist is empty or the media sequence is the cached
\* one, within the stale threshold or not, and sets it to false when it
\* observes another media sequence; no other step takes isStale of a
\* document from true to false, and the persisted isStale goes from true to
\* false only by a save of the document of such a poll.
C27_StaleUntilSequenceMoves ==
    [][/\ \A k \in 1..Len(sweeps) :
            StepAt(k, "eval") /\ docs[Polled(k)].isStale =>
              docs'[Polled(k)].isStale = ~ObservesChange(k)
       /\ \A id \in DOMAIN docs \cap DOMAIN docs' :
            docs[id].isStale /\ ~docs'[id].isStale =>
              \E k \in 1..Len(sweeps) :
                 /\ StepAt(k, "eval")
                 /\ Polled(k) = id
                 /\ ObservesChange(k)
       /\ \A sid \in DOMAIN store :
            store[sid].isStale /\ ~store'[sid].isStale =>
              \E id \in DOMAIN docs :
                 /\ SidOf(id) = sid
                 /\ ~docs[id].conflicts
                 /\ ~docs[id].isStale
                 /\ docs[id].mediaSequence # docs[id].previousMediaSequence
                 /\ store'[sid].mediaSequence = docs[id].mediaSequence]_vars

\* C27 witness: the third poll has found the media sequence unchanged within
\* the stale threshold, after a second one that found it unchanged beyond
\* the threshold, and the persisted record is still stale.
C27_Witness ==
    /\ started = MaxLongSweeps
    /\ sweeps = << >>
    /\ store["s1"].isStale
    /\ store["s1"].timeSinceLastUpdate = MONITOR_INTERVAL + Latency
    /\ store["s1"].timeSinceLastUpdate <= store["s1"].staleThreshold
    /\ "s1" \in DOMAIN streamState
    /\ streamState["s1"].consecutiveStales = 2

====
